---- MODULE Spec2Model ----
(***************************************************************************)
(* Model of the Nessus reporting ETL: the scan diff engine                 *)
(* (etl/metrics/remediation_status_resolver.py), the time-series loader    *)
(* (etl/loaders/supabase_timeseries_loader.py), the extractor and the      *)
(* transformer, the metrics (etl/metrics/mttr_calculator.py,               *)
(* metrics_generator.py, reporting_tables.py) and the enhanced pipeline    *)
(* (etl/pipeline/enhanced_nessus_etl_pipeline.py).                         *)
(*                                                                         *)
(* A Python dict is a TLA+ function whose domain is the set of keys the    *)
(* dict holds; a Python list is a sequence.  Where a value can be of more  *)
(* than one Python type it is a record that names its type (PyStr, PyInt,  *)
(* PyFloat, PyNone, PyDict, PyList).                                       *)
(***************************************************************************)
EXTENDS Integers, Sequences, FiniteSets, TLC

VARIABLES
    current_vulns,    \* resolver argument current_vulns (its dicts are mutated in place)
    previous_vulns,   \* resolver argument previous_vulns
    result,           \* outcome of the resolver call: not called / returned / raised
    store,            \* the relational store behind loader.client
    current_scan_session_id,  \* SupabaseTimeSeriesLoader.current_scan_session_id
    stats,            \* EnhancedNessusETLPipeline.stats
    call,             \* the last completed operation: name, arguments, outcome
    steps,            \* number of operations completed so far
    now,              \* the clock datetime.now() reads; every reading is later than the one before
    pending,          \* the arguments drawn for the calls of the pure functions
    workers           \* the ingestions that run at the same time on one store, each with
                      \* its own loader: its position and its local variables

vars == <<current_vulns, previous_vulns, result, store, current_scan_session_id, stats, call, steps,
          now, pending, workers>>

-----------------------------------------------------------------------------
(* Bounds *)

MaxCur == 2
MaxPrev == 2
MaxOps == 3
MaxAssetBatch == 2
MaxVulnBatch == 2
MaxScans == 3
MaxStoredSessions == 2
MaxStoredAssets == 2
MaxStoredFindings == 2
MaxMetricsRuns == 2
MaxScopeFindings == 2
MaxFiles == 2
MaxGroups == 3
MaxDirectoryRuns == 2

-----------------------------------------------------------------------------
(* Python dict and list helpers *)

\* Python's None.  The value is no Python string of the model: the str
\* 'None' (the risk of severity '0') is "None", a different value.
None == "<None>"

Has(v, f) == f \in DOMAIN v

Get(v, f) == IF f \in DOMAIN v THEN v[f] ELSE None

GetOr(v, f, default) == IF f \in DOMAIN v THEN v[f] ELSE default

SetField(v, f, val) == [g \in (DOMAIN v) \cup {f} |-> IF g = f THEN val ELSE v[g]]

Front(s) == SubSeq(s, 1, Len(s) - 1)

\* A local variable assigned once and read many times: F of the value.
Bind(value, F(_)) == CHOOSE r \in {F(v) : v \in {value}} : TRUE

SeqsUpTo(S, n) == UNION {[1..k -> S] : k \in 0..n}

-----------------------------------------------------------------------------
(* Scan diff engine: resolve_remediation_status *)

HasKey(v) == Has(v, "asset_id") /\ Has(v, "plugin_id")

KeyOf(v) == <<v["asset_id"], v["plugin_id"]>>

\* {(v['asset_id'], v['plugin_id']): v for v in vs}: an insertion-ordered
\* dict, as a sequence of entries; a repeated key keeps its first position
\* and takes the last value.
RECURSIVE BuildLookup(_)
BuildLookup(vs) ==
    IF vs = <<>> THEN <<>>
    ELSE LET d == BuildLookup(Front(vs))
             v == vs[Len(vs)]
             k == KeyOf(v)
         IN  IF \E i \in 1..Len(d) : d[i].key = k
             THEN [i \in 1..Len(d) |-> IF d[i].key = k THEN [key |-> k, val |-> v] ELSE d[i]]
             ELSE Append(d, [key |-> k, val |-> v])

InLookup(d, k) == \E i \in 1..Len(d) : d[i].key = k

LookupGet(d, k) == d[CHOOSE i \in 1..Len(d) : d[i].key = k].val

\* The key whose lookup raises KeyError in the first dict of the list
\* without its key, if any: the tuple (v['asset_id'], v['plugin_id']) is
\* evaluated left to right.
FirstMalformed(vs) ==
    IF \E i \in 1..Len(vs) : ~HasKey(vs[i])
    THEN LET i == CHOOSE j \in 1..Len(vs) :
                     ~HasKey(vs[j]) /\ \A h \in 1..(j - 1) : HasKey(vs[h])
         IN  IF ~Has(vs[i], "asset_id") THEN "asset_id" ELSE "plugin_id"
    ELSE None

\* Variant: any key present in the previous lookup counts as reopened.
CurrentStatus_ReopenedWhenSeen(vuln, prev_lookup) ==
    IF InLookup(prev_lookup, KeyOf(vuln)) THEN "reopened" ELSE "open"

\* Variant: the previous status is never consulted.
CurrentStatus_AlwaysOpen(vuln, prev_lookup) == "open"

\* Lines 35-45: the status written into a current-scan dict.
CurrentStatus(vuln, prev_lookup) ==
    IF InLookup(prev_lookup, KeyOf(vuln))
    THEN IF Get(LookupGet(prev_lookup, KeyOf(vuln)), "remediation_status") = "remediated"
         THEN "reopened"
         ELSE "open"
    ELSE "open"

\* Lines 35-45: the current-scan dicts after the loop (mutated in place;
\* the same dicts are the first Len(current) elements of the result).
MarkCurrent(cur, prev_lookup) ==
    [i \in 1..Len(cur) |-> SetField(cur[i], "remediation_status", CurrentStatus(cur[i], prev_lookup))]

\* Variant: the copy keeps the status of the previous dict.
RECURSIVE MarkRemediated_KeepStatus(_, _)
MarkRemediated_KeepStatus(prev_lookup, curr_lookup) ==
    IF prev_lookup = <<>> THEN <<>>
    ELSE LET rest == MarkRemediated_KeepStatus(Front(prev_lookup), curr_lookup)
             e == prev_lookup[Len(prev_lookup)]
         IN  IF ~InLookup(curr_lookup, e.key) THEN Append(rest, e.val) ELSE rest

\* Variant: the test against curr_lookup is left out.
RECURSIVE MarkRemediated_EveryPrevious(_, _)
MarkRemediated_EveryPrevious(prev_lookup, curr_lookup) ==
    IF prev_lookup = <<>> THEN <<>>
    ELSE Append(MarkRemediated_EveryPrevious(Front(prev_lookup), curr_lookup),
                SetField(prev_lookup[Len(prev_lookup)].val, "remediation_status", "remediated"))

\* Lines 47-52: copies of the previous dicts whose key is not in
\* curr_lookup, in the iteration order of prev_lookup.
RECURSIVE MarkRemediated(_, _)
MarkRemediated(prev_lookup, curr_lookup) ==
    IF prev_lookup = <<>> THEN <<>>
    ELSE LET rest == MarkRemediated(Front(prev_lookup), curr_lookup)
             e == prev_lookup[Len(prev_lookup)]
         IN  IF ~InLookup(curr_lookup, e.key)
             THEN Append(rest, SetField(e.val, "remediation_status", "remediated"))
             ELSE rest

\* Variant: line 51 writes into the previous dict itself (no .copy()), so
\* the dict each absent key maps to is changed in the caller's list.
PreviousAfter_NoCopy(prev, curr_lookup) ==
    [j \in 1..Len(prev) |->
        IF /\ ~InLookup(curr_lookup, KeyOf(prev[j]))
           /\ \A h \in (j + 1)..Len(prev) : KeyOf(prev[h]) # KeyOf(prev[j])
        THEN SetField(prev[j], "remediation_status", "remediated")
        ELSE prev[j]]

\* Line 50: prev_vuln.copy() - the status is written into the copy, the
\* dicts of previous_vulns stay as they were.
PreviousAfter(prev, curr_lookup) == prev

\* A list without the dicts that lack a key.
WellFormedOnly(vs) == SelectSeq(vs, HasKey)

\* The diff of two lists whose dicts all have their key (lines 29-54).
ResolveWellFormed(cur, prev) ==
    LET prev_lookup == BuildLookup(prev)
        curr_lookup == BuildLookup(cur)
        marked == MarkCurrent(cur, prev_lookup)
    IN  [raised |-> FALSE, error |-> <<>>,
         resolved |-> marked \o MarkRemediated(prev_lookup, curr_lookup),
         current |-> marked, previous |-> PreviousAfter(prev, curr_lookup)]

\* Variant: dicts without a key are skipped instead of raising.
resolve_remediation_status_SkipMalformed(cur, prev) ==
    ResolveWellFormed(WellFormedOnly(cur), WellFormedOnly(prev))

\* resolve_remediation_status(current_vulns, previous_vulns): the outcome
\* (returned list or raised KeyError) and the argument lists after the call.
resolve_remediation_status(cur, prev) ==
    IF FirstMalformed(prev) # None
    THEN [raised |-> TRUE, error |-> <<"KeyError", FirstMalformed(prev)>>,
          resolved |-> <<>>, current |-> cur, previous |-> prev]
    ELSE IF FirstMalformed(cur) # None
    THEN [raised |-> TRUE, error |-> <<"KeyError", FirstMalformed(cur)>>,
          resolved |-> <<>>, current |-> cur, previous |-> prev]
    ELSE ResolveWellFormed(cur, prev)

-----------------------------------------------------------------------------
(* The relational store behind loader.client.  A table is the sequence of  *)
(* its rows in insertion order; ids are 1, 2, ... per table.               *)

NoSession == 0

EmptyStore ==
    [scan_sessions |-> <<>>, assets |-> <<>>, vulnerability_definitions |-> <<>>,
     vulnerability_scans |-> <<>>, business_groups |-> <<>>, metrics_snapshots |-> <<>>,
     metric_values |-> <<>>, mttr_history |-> <<>>, asset_history |-> <<>>]

\* str.lower() on the host names and MAC addresses of the model.
Lower(s) ==
    CASE s = "Web1" -> "web1"
      [] s = "Web2" -> "web2"
      [] s = "AA:BB" -> "aa:bb"
      [] s = "Linux 5.4" -> "linux 5.4"
      [] s = "A" -> "a"
      [] s = "B" -> "b"
      [] s = "IT" -> "it"
      [] s = "Ops" -> "ops"
      [] OTHER -> s

\* ''.join(c for c in os_info if c.isalnum()).lower() on the OS strings of the model.
CleanOs(s) ==
    CASE s = "Linux 5.4" -> "linux54"
      [] OTHER -> Lower(s)

\* Python truthiness of an optional string: None and '' are false.
Truthy(s) == s # None /\ s # ""

\* Variant: the hostname rule is tried before the OS rule.
_generate_asset_fingerprint_HostnameBeforeOs(hostname, ip_address, mac_address, os_info) ==
    IF Truthy(mac_address) THEN <<"mac", Lower(mac_address)>>
    ELSE IF Truthy(hostname) THEN <<"ip_host", ip_address, Lower(hostname)>>
    ELSE IF Truthy(os_info) THEN <<"ip_os", ip_address, CleanOs(os_info)>>
    ELSE <<"ip", ip_address>>

\* SupabaseTimeSeriesLoader._generate_asset_fingerprint
_generate_asset_fingerprint(hostname, ip_address, mac_address, os_info) ==
    IF Truthy(mac_address) THEN <<"mac", Lower(mac_address)>>
    ELSE IF Truthy(os_info) THEN <<"ip_os", ip_address, CleanOs(os_info)>>
    ELSE IF Truthy(hostname) THEN <<"ip_host", ip_address, Lower(hostname)>>
    ELSE <<"ip", ip_address>>

\* The database function behind rpc('upsert_asset'), the Asset Identity
\* Store Interface: it takes the observed attributes, the fingerprint the
\* cascade gives them and the scan session, and the time of the
\* observation is the database's reading of the clock.
\*  - Without an address it fails with MissingRequiredAttribute.
\*  - It fails with IdentityConflict when two different fingerprints claim
\*    the same hardware within one scan: an identity observed in this scan
\*    session under the same hostname and address has another fingerprint.
\*    A call without a scan session belongs to no scan.
\*  - A fingerprint never seen gets a new identity row.
\*  - A fingerprint seen before keeps its row and id: the snapshot fields
\*    (hostname, address, OS) take the observed values and one history
\*    record is appended per field that changed.
\* A call that fails leaves the store as it was.
DbUpsertAsset(st, asset_jsonb, sid, clock) ==
    IF ~Truthy(Get(asset_jsonb, "ip_address"))
    THEN [raised |-> TRUE, error |-> "MissingRequiredAttribute", store |-> st, id |-> 0]
    ELSE
    Bind([fingerprint |-> _generate_asset_fingerprint(
                              Get(asset_jsonb, "hostname"), asset_jsonb["ip_address"],
                              Get(asset_jsonb, "mac_address"), Get(asset_jsonb, "operating_system")),
          current_hostname |-> Get(asset_jsonb, "hostname"),
          current_ip_address |-> asset_jsonb["ip_address"],
          current_os |-> Get(asset_jsonb, "operating_system")], LAMBDA seen :
    Bind({i \in 1..Len(st.assets) : st.assets[i].fingerprint = seen.fingerprint}, LAMBDA known :
        IF /\ sid # NoSession
           /\ Truthy(seen.current_hostname)
           /\ \E i \in 1..Len(st.assets) :
                 /\ st.assets[i].scan_session_id = sid
                 /\ st.assets[i].current_hostname = seen.current_hostname
                 /\ st.assets[i].current_ip_address = seen.current_ip_address
                 /\ st.assets[i].fingerprint # seen.fingerprint
        THEN [raised |-> TRUE, error |-> "IdentityConflict", store |-> st, id |-> 0]
        ELSE IF known # {}
        THEN Bind(st.assets[CHOOSE i \in known : TRUE], LAMBDA row :
                [raised |-> FALSE, error |-> None,
                 store |-> [st EXCEPT
                     !.assets[row.id] =
                         [@ EXCEPT !.current_hostname = seen.current_hostname,
                                   !.current_ip_address = seen.current_ip_address,
                                   !.current_os = seen.current_os,
                                   !.scan_session_id = sid],
                     !.asset_history = @ \o SelectSeq(
                         [k \in 1..3 |->
                             Bind(<<"current_hostname", "current_ip_address", "current_os">>[k],
                                  LAMBDA field :
                                    [asset_id |-> row.id, change_type |-> "update", field |-> field,
                                     old_value |-> row[field], new_value |-> seen[field],
                                     observed_at |-> clock])],
                         LAMBDA change : change.old_value # change.new_value)],
                 id |-> row.id])
        ELSE Bind(Len(st.assets) + 1, LAMBDA id :
                [raised |-> FALSE, error |-> None,
                 store |-> [st EXCEPT !.assets = Append(@,
                               [id |-> id, fingerprint |-> seen.fingerprint,
                                current_hostname |-> seen.current_hostname,
                                current_ip_address |-> seen.current_ip_address,
                                current_os |-> seen.current_os,
                                scan_session_id |-> sid, is_active |-> TRUE])],
                 id |-> id])))

\* {k: v for k, v in d.items() if v is not None}
DropNone(d) == [k \in {f \in DOMAIN d : d[f] # None} |-> d[k]]

Item(plugin, severity, port) == [pluginID |-> plugin, severity |-> severity, port |-> port]

Web1(items) ==
    [properties |-> ("host-ip" :> "10.0.0.1") @@ ("host-fqdn" :> "Web1"), items |-> items]

\* The report files on disk: the ReportHost elements of each, in document
\* order.  A path outside the domain does not exist.
Disk ==
    ("empty.nessus" :> <<Web1(<<>>)>>)
    @@ ("info.nessus" :> <<Web1(<<Item("P0", "0", "0")>>)>>)
    @@ ("v1.nessus" :> <<Web1(<<Item("V1", "3", "80")>>)>>)
    @@ ("scans/v1.nessus" :> <<Web1(<<Item("V1", "3", "80")>>)>>)
    @@ ("v1v2.nessus" :> <<Web1(<<Item("V1", "3", "80"), Item("V2", "1", "443")>>)>>)
    @@ ("two.nessus" :> <<Web1(<<Item("V2", "1", "443")>>), [properties |-> ("host-ip" :> "10.0.0.2"), items |-> <<Item("V1", "4", "80")>>]>>)

\* os.path.basename on the paths of the model.
Basename(path) ==
    CASE path = "scans/v1.nessus" -> "v1.nessus"
      [] OTHER -> path

\* SupabaseTimeSeriesLoader.create_scan_session: the file name is the base
\* name of a path that is given and exists and None otherwise (lines
\* 62-66); the session is dated scan_date when the caller gives one and
\* with the clock otherwise (line 73).  scan_date is <<>> for a call
\* without the argument and <<date>> for a call with it.
create_scan_session(st, scan_file_path, scan_date, clock) ==
    LET id == Len(st.scan_sessions) + 1
        file_name == IF Truthy(scan_file_path) /\ scan_file_path \in DOMAIN Disk
                     THEN Basename(scan_file_path)
                     ELSE None
    IN  [store |-> [st EXCEPT !.scan_sessions =
                        Append(@, [id |-> id, scan_file_name |-> file_name,
                                   scan_date |-> IF scan_date # <<>> THEN scan_date[1] ELSE clock])],
         id |-> id, now |-> clock + 1]

\* SupabaseTimeSeriesLoader.update_scan_session_stats
update_scan_session_stats(st, sid, total_hosts, total_vulnerabilities) ==
    IF sid = NoSession THEN st
    ELSE [st EXCEPT !.scan_sessions =
            [i \in 1..Len(@) |->
                IF @[i].id = sid
                THEN SetField(SetField(@[i], "total_hosts_scanned", total_hosts),
                              "total_vulnerabilities_found", total_vulnerabilities)
                ELSE @[i]]]

\* The JSONB object upsert_asset hands to the database function (lines
\* 159-170): the fields that are None are left out.
AssetJsonb(asset_data) ==
    LET hostname == GetOr(asset_data, "Asset_Name", "")
    IN  DropNone([hostname |-> IF Truthy(hostname) THEN hostname ELSE None,
                  ip_address |-> GetOr(asset_data, "Asset_IP", ""),
                  mac_address |-> Get(asset_data, "MAC_Address"),
                  operating_system |-> Get(asset_data, "Operating_System"),
                  asset_type |-> GetOr(asset_data, "Type", "unknown")])

\* Variant: the object handed to the database function carries the
\* hostname and the address only.
upsert_asset_HostnameAndIpOnly(st, sid, asset_data, clock) ==
    LET ip_address == GetOr(asset_data, "Asset_IP", "")
        hostname == GetOr(asset_data, "Asset_Name", "")
    IN  IF ~Truthy(ip_address)
        THEN [raised |-> TRUE, error |-> "ValueError", store |-> st, id |-> 0, store_calls |-> 0]
        ELSE Bind(DbUpsertAsset(st, DropNone([hostname |-> IF Truthy(hostname) THEN hostname ELSE None,
                                              ip_address |-> ip_address]), sid, clock),
                  LAMBDA r : [raised |-> r.raised, error |-> r.error, store |-> r.store,
                              id |-> r.id, store_calls |-> 1])

\* Variant: the address is not checked before the database function is called.
upsert_asset_NoAddressCheck(st, sid, asset_data, clock) ==
    Bind(DbUpsertAsset(st, AssetJsonb(asset_data), sid, clock),
         LAMBDA r : [raised |-> r.raised, error |-> r.error, store |-> r.store, id |-> r.id,
                     store_calls |-> 1])

\* SupabaseTimeSeriesLoader.upsert_asset; store_calls counts the requests
\* made to the client.  An error of the database function is logged and
\* raised again (lines 189-191).  clock is the time the request reaches
\* the database.
upsert_asset(st, sid, asset_data, clock) ==
    LET ip_address == GetOr(asset_data, "Asset_IP", "")
    IN  IF ~Truthy(ip_address)
        THEN [raised |-> TRUE, error |-> "ValueError", store |-> st, id |-> 0, store_calls |-> 0]
        ELSE Bind(DbUpsertAsset(st, AssetJsonb(asset_data), sid, clock),
                  LAMBDA r : [raised |-> r.raised, error |-> r.error, store |-> r.store,
                              id |-> r.id, store_calls |-> 1])

\* SupabaseTimeSeriesLoader.load_assets: the per-asset try/except of the loop.
LoadAssetStep(acc, sid, asset, clock) ==
    LET r == upsert_asset(acc.store, sid, asset, clock)
    IN  IF r.raised
        THEN [acc EXCEPT !.store_calls = @ + r.store_calls]
        ELSE [store |-> r.store, processed_count |-> acc.processed_count + 1,
              store_calls |-> acc.store_calls + r.store_calls]

RECURSIVE LoadAssetsLoop(_, _, _, _)
LoadAssetsLoop(st, sid, assets, clock) ==
    IF assets = <<>> THEN [store |-> st, processed_count |-> 0, store_calls |-> 0]
    ELSE Bind(LoadAssetsLoop(st, sid, Front(assets), clock),
              LAMBDA acc : LoadAssetStep(acc, sid, assets[Len(assets)], clock))

\* SupabaseTimeSeriesLoader.load_assets
load_assets(st, sid, assets, clock) == LoadAssetsLoop(st, sid, assets, clock)

\* SupabaseTimeSeriesLoader._safe_int on the port strings of the model:
\* int(value) succeeds exactly on these, and gives 0 for '0'.
PortNumber == ("0" :> 0) @@ ("80" :> 80) @@ ("443" :> 443)

\* d.update(changes) on a row of a table.
UpdateRow(row, changes) ==
    [f \in (DOMAIN row) \cup (DOMAIN changes) |-> IF f \in DOMAIN changes THEN changes[f] ELSE row[f]]

\* The fields of a definition upsert_vulnerability_definition takes from
\* the finding (lines 215-227 and 236-248), None values removed.  Of the
\* descriptive fields the model keeps the name and the risk factor.
VulnDefData(vuln_data) ==
    DropNone([vulnerability_name |-> GetOr(vuln_data, "Vulnerability_Name", GetOr(vuln_data, "name", "")),
              risk_factor |-> GetOr(vuln_data, "Risk", Get(vuln_data, "risk_factor"))])

\* Variant: a definition row is inserted whether or not the plugin id is
\* already stored.
upsert_vulnerability_definition_AlwaysInsert(st, vuln_data) ==
    LET plugin_id == GetOr(vuln_data, "Plugin_ID", Get(vuln_data, "plugin_id"))
        id == Len(st.vulnerability_definitions) + 1
    IN  IF ~Truthy(plugin_id)
        THEN [raised |-> TRUE, error |-> "ValueError", store |-> st, id |-> 0]
        ELSE [raised |-> FALSE, error |-> None,
              store |-> [st EXCEPT !.vulnerability_definitions = Append(@,
                            SetField(SetField(VulnDefData(vuln_data), "plugin_id", plugin_id), "id", id))],
              id |-> id]

\* SupabaseTimeSeriesLoader.upsert_vulnerability_definition
upsert_vulnerability_definition(st, vuln_data) ==
    LET plugin_id == GetOr(vuln_data, "Plugin_ID", Get(vuln_data, "plugin_id"))
        existing == {i \in 1..Len(st.vulnerability_definitions) :
                        st.vulnerability_definitions[i].plugin_id = plugin_id}
    IN  IF ~Truthy(plugin_id)
        THEN [raised |-> TRUE, error |-> "ValueError", store |-> st, id |-> 0]
        ELSE IF existing # {}
        THEN LET i == CHOOSE j \in existing : \A h \in existing : j <= h
                 id == st.vulnerability_definitions[i].id
             IN  [raised |-> FALSE, error |-> None,
                  store |-> [st EXCEPT !.vulnerability_definitions =
                                [k \in 1..Len(@) |->
                                    IF @[k].id = id THEN UpdateRow(@[k], VulnDefData(vuln_data)) ELSE @[k]]],
                  id |-> id]
        ELSE LET id == Len(st.vulnerability_definitions) + 1
             IN  [raised |-> FALSE, error |-> None,
                  store |-> [st EXCEPT !.vulnerability_definitions = Append(@,
                                SetField(SetField(VulnDefData(vuln_data), "plugin_id", plugin_id), "id", id))],
                  id |-> id]

\* The row insert_vulnerability_scan builds (lines 282-302); the port is
\* kept only when _safe_int converts it.
VulnScanRow(id, sid, asset_id, vulnerability_id, scan_data, scan_date) ==
    LET base == [id |-> id,
                 asset_id |-> asset_id,
                 vulnerability_id |-> vulnerability_id,
                 scan_session_id |-> sid,
                 status |-> GetOr(scan_data, "Status", "open"),
                 severity |-> GetOr(scan_data, "Severity", GetOr(scan_data, "Risk", "Unknown")),
                 first_seen |-> scan_date,
                 last_seen |-> scan_date,
                 scan_date |-> scan_date,
                 remediation_status |-> "open"]
    IN  IF Get(scan_data, "Port") \in DOMAIN PortNumber
        THEN SetField(base, "port", PortNumber[scan_data["Port"]])
        ELSE base

\* Variant: without a current scan session the row is stored all the same.
insert_vulnerability_scan_NoSessionCheck(st, sid, asset_id, vulnerability_id, scan_data, clock) ==
    LET id == Len(st.vulnerability_scans) + 1
    IN  [raised |-> FALSE, error |-> None,
         store |-> [st EXCEPT !.vulnerability_scans =
                       Append(@, VulnScanRow(id, sid, asset_id, vulnerability_id, scan_data, clock))],
         id |-> id, now |-> clock + 1]

\* SupabaseTimeSeriesLoader.insert_vulnerability_scan
insert_vulnerability_scan(st, sid, asset_id, vulnerability_id, scan_data, clock) ==
    IF sid = NoSession
    THEN [raised |-> TRUE, error |-> "ValueError", store |-> st, id |-> 0, now |-> clock]
    ELSE LET id == Len(st.vulnerability_scans) + 1
         IN  [raised |-> FALSE, error |-> None,
              store |-> [st EXCEPT !.vulnerability_scans =
                            Append(@, VulnScanRow(id, sid, asset_id, vulnerability_id, scan_data, clock))],
              id |-> id, now |-> clock + 1]

\* select('id').eq('current_ip_address', asset_ip): the matching asset ids in table order.
AssetsByIp(st, asset_ip) ==
    SelectSeq(st.assets, LAMBDA a : a.current_ip_address = asset_ip)

\* Variant: the except clause ends the loop (break) instead of going on to
\* the next finding.
LoadVulnStep_StopAtFailure(acc, sid, vuln, pos) ==
    LET d == upsert_vulnerability_definition(acc.store, vuln)
        asset_ip == GetOr(vuln, "IP", GetOr(vuln, "Asset_IP", ""))
        found == AssetsByIp(d.store, asset_ip)
        skipped == [acc EXCEPT !.store = d.store]
    IN  IF Has(acc, "aborted") THEN acc
        ELSE IF d.raised THEN SetField(acc, "aborted", "yes")
        ELSE IF ~Truthy(asset_ip) THEN skipped
        ELSE IF found = <<>> THEN skipped
        ELSE LET r == insert_vulnerability_scan(d.store, sid, found[1].id, d.id, vuln, acc.now)
             IN  IF r.raised THEN SetField(skipped, "aborted", "yes")
                 ELSE [store |-> r.store,
                       processed_count |-> acc.processed_count + 1,
                       inserted |-> Append(acc.inserted, [pos |-> pos, id |-> r.id]),
                       now |-> r.now]

\* SupabaseTimeSeriesLoader.load_vulnerabilities: one pass of the loop body
\* (lines 485-514).  acc.inserted lists, per inserted row, the position of
\* the input dict and the id of the row.
LoadVulnStep(acc, sid, vuln, pos) ==
    LET d == upsert_vulnerability_definition(acc.store, vuln)
        asset_ip == GetOr(vuln, "IP", GetOr(vuln, "Asset_IP", ""))
        found == AssetsByIp(d.store, asset_ip)
        skipped == [acc EXCEPT !.store = d.store]
    IN  IF d.raised THEN acc
        ELSE IF ~Truthy(asset_ip) THEN skipped
        ELSE IF found = <<>> THEN skipped
        ELSE LET r == insert_vulnerability_scan(d.store, sid, found[1].id, d.id, vuln, acc.now)
             IN  IF r.raised THEN skipped
                 ELSE [store |-> r.store,
                       processed_count |-> acc.processed_count + 1,
                       inserted |-> Append(acc.inserted, [pos |-> pos, id |-> r.id]),
                       now |-> r.now]

RECURSIVE LoadVulnsLoop(_, _, _, _)
LoadVulnsLoop(st, sid, vulnerabilities, clock) ==
    IF vulnerabilities = <<>>
    THEN [store |-> st, processed_count |-> 0, inserted |-> <<>>, now |-> clock]
    ELSE Bind(LoadVulnsLoop(st, sid, Front(vulnerabilities), clock),
              LAMBDA acc : LoadVulnStep(acc, sid, vulnerabilities[Len(vulnerabilities)],
                                        Len(vulnerabilities)))

\* SupabaseTimeSeriesLoader.load_vulnerabilities
load_vulnerabilities(st, sid, vulnerabilities, clock) ==
    LoadVulnsLoop(st, sid, vulnerabilities, clock)

-----------------------------------------------------------------------------
(* Business groups *)

\* The id the database gives the n-th row of business_groups.
GroupId(n) == "g" \o ToString(n)

\* select('path, depth').eq('id', parent_id) on business_groups
GroupsById(st, parent_id) ==
    SelectSeq(st.business_groups, LAMBDA g : g.id = parent_id)

\* Variant: a group under a parent gets the depth of its parent.
create_business_group_ParentDepth(st, name, parent_id, reply) ==
    LET parent_result == GroupsById(st, parent_id)
        parent_path == IF Truthy(parent_id) THEN parent_result[1].path ELSE "/"
        depth == IF Truthy(parent_id) THEN parent_result[1].depth ELSE 0
        id == GroupId(Len(st.business_groups) + 1)
    IN  IF Truthy(parent_id) /\ parent_result = <<>>
        THEN [raised |-> TRUE, error |-> "ValueError", store |-> st, id |-> None]
        ELSE IF reply = "no_data"
        THEN [raised |-> TRUE, error |-> "Exception", store |-> st, id |-> None]
        ELSE [raised |-> FALSE, error |-> None, id |-> id,
              store |-> [st EXCEPT !.business_groups = Append(@,
                            [id |-> id, name |-> name, parent_id |-> parent_id,
                             path |-> parent_path \o name \o "/", depth |-> depth])]]

\* BusinessContextManager.create_business_group.  reply is what the insert
\* request gives back: the stored row, or no data (nothing was stored).
create_business_group(st, name, parent_id, reply) ==
    LET parent_result == GroupsById(st, parent_id)
        parent_path == IF Truthy(parent_id) THEN parent_result[1].path ELSE "/"
        depth == IF Truthy(parent_id) THEN parent_result[1].depth + 1 ELSE 0
        id == GroupId(Len(st.business_groups) + 1)
    IN  IF Truthy(parent_id) /\ parent_result = <<>>
        THEN [raised |-> TRUE, error |-> "ValueError", store |-> st, id |-> None]
        ELSE IF reply = "no_data"
        THEN [raised |-> TRUE, error |-> "Exception", store |-> st, id |-> None]
        ELSE [raised |-> FALSE, error |-> None, id |-> id,
              store |-> [st EXCEPT !.business_groups = Append(@,
                            [id |-> id, name |-> name, parent_id |-> parent_id,
                             path |-> parent_path \o name \o "/", depth |-> depth])]]

\* The calls of create_default_business_groups (lines 418-447), the first
\* calls_made of them: three root groups, then the groups under each, every
\* one under the id its parent's call returned.  failing is the number of
\* the call whose insert returns no data (0: none does); a call that
\* raises ends the run.
RECURSIVE DefaultGroupCalls(_, _, _)
DefaultGroupCalls(st, calls_made, failing) ==
    LET groups == <<[name |-> "Geographic Regions", parent |-> 0],
                    [name |-> "Departments", parent |-> 0],
                    [name |-> "Environments", parent |-> 0],
                    [name |-> "EMEA", parent |-> 1],
                    [name |-> "APAC", parent |-> 1],
                    [name |-> "Americas", parent |-> 1],
                    [name |-> "Finance", parent |-> 2],
                    [name |-> "HR", parent |-> 2],
                    [name |-> "IT", parent |-> 2],
                    [name |-> "R&D", parent |-> 2],
                    [name |-> "Production", parent |-> 3],
                    [name |-> "Staging", parent |-> 3],
                    [name |-> "Development", parent |-> 3],
                    [name |-> "Test", parent |-> 3]>>
    IN  IF calls_made = 0 THEN [raised |-> FALSE, store |-> st, ids |-> <<>>]
        ELSE Bind(DefaultGroupCalls(st, calls_made - 1, failing), LAMBDA acc :
                IF acc.raised THEN acc
                ELSE Bind(create_business_group(
                              acc.store, groups[calls_made].name,
                              IF groups[calls_made].parent = 0 THEN None
                              ELSE acc.ids[groups[calls_made].parent],
                              IF calls_made = failing THEN "no_data" ELSE "row"),
                          LAMBDA r : [raised |-> r.raised, store |-> r.store,
                                      ids |-> Append(acc.ids, r.id)]))

\* BusinessContextManager.create_default_business_groups: an exception of
\* one of its calls is logged and not raised again (lines 451-452); the
\* method returns None.
create_default_business_groups(st, failing) ==
    [raised |-> FALSE, error |-> None, ret |-> None,
     store |-> DefaultGroupCalls(st, 14, failing).store]

\* SupabaseTimeSeriesLoader._apply_business_group_rules on rules that name
\* a group and, at will, its parent: the group is looked up by name and
\* created when there is none, under the first group with the parent's
\* name when there is one (lines 383-403).  The rules of the model match
\* no assets (lines 405-441 assign nothing).  An exception of
\* create_business_group is not caught.
RECURSIVE _apply_business_group_rules(_, _, _)
_apply_business_group_rules(st, bg_rules, reply) ==
    IF bg_rules = <<>> THEN [raised |-> FALSE, error |-> None, store |-> st]
    ELSE Bind(_apply_business_group_rules(st, Front(bg_rules), reply), LAMBDA acc :
            LET bg_rule == bg_rules[Len(bg_rules)]
                bg_result == SelectSeq(acc.store.business_groups,
                                       LAMBDA g : g.name = bg_rule.name)
                parent_result == IF Has(bg_rule, "parent")
                                 THEN SelectSeq(acc.store.business_groups,
                                                LAMBDA g : g.name = bg_rule.parent)
                                 ELSE <<>>
                created == create_business_group(
                               acc.store, bg_rule.name,
                               IF parent_result # <<>> THEN parent_result[1].id ELSE None, reply)
            IN  IF acc.raised \/ bg_result # <<>> THEN acc
                ELSE [raised |-> created.raised, error |-> created.error, store |-> created.store])

\* SupabaseTimeSeriesLoader.load_with_business_context.  The tags and their
\* assignments are rows of tables the model does not hold (asset_tags,
\* asset_tag_assignments, asset_business_groups); tag_tables tells whether
\* the requests on them succeed ("ok") or raise ("unavailable").  Requests
\* on them are made for a host with tags whose asset is found by its
\* address (lines 337-364: create_tag raises, and so does the select of the
\* handler) and by apply_dynamic_tags (line 368, which raises again what it
\* catches).  business_rules is <<>> for a call without rules.
load_with_business_context(st, sid, assets, vulnerabilities, business_rules, apply_dynamic_tags, tag_tables, reply, clock) ==
    Bind(load_assets(st, sid, assets, clock), LAMBDA la :
    Bind(load_vulnerabilities(la.store, sid, vulnerabilities, clock), LAMBDA lv :
        LET tagged == \E i \in 1..Len(assets) :
                          /\ Has(assets[i], "tags")
                          /\ assets[i].tags # <<>>
                          /\ AssetsByIp(lv.store, Get(assets[i], "Asset_IP")) # <<>>
            rules == IF DOMAIN business_rules # {}
                     THEN _apply_business_group_rules(
                              lv.store, GetOr(business_rules, "business_groups", <<>>), reply)
                     ELSE [raised |-> FALSE, error |-> None, store |-> lv.store]
        IN  IF tag_tables = "unavailable" /\ (tagged \/ apply_dynamic_tags)
            THEN [raised |-> TRUE, error |-> "Exception", store |-> lv.store, now |-> lv.now,
                  ret |-> None]
            ELSE [raised |-> rules.raised, error |-> rules.error, store |-> rules.store,
                  now |-> lv.now,
                  ret |-> IF rules.raised THEN None
                          ELSE [assets_loaded |-> la.processed_count,
                                vulnerabilities_loaded |-> lv.processed_count]]))

-----------------------------------------------------------------------------
(* Extraction and transformation of a report file *)

\* A Python value that is a str, and one that is an int.
PyStr(s) == [type |-> "str", str |-> s]

PyInt(n) == [type |-> "int", int |-> n]

\* str(n) for the integers of the model.
Decimal(n) ==
    CASE n = 0 -> "0"
      [] n = 1 -> "1"
      [] n = 2 -> "2"
      [] n = 3 -> "3"
      [] n = 4 -> "4"
      [] n = 5 -> "5"
      [] n = 6 -> "6"
      [] n = -1 -> "-1"

\* str(v)
Str(v) == IF v.type = "str" THEN v.str ELSE Decimal(v.int)

\* NessusExtractor._map_severity_to_risk: the keys of severity_map are
\* strings, so a severity that is not a str finds no key.
_map_severity_to_risk(severity) ==
    IF severity.type # "str" THEN "Unknown"
    ELSE CASE severity.str = "0" -> "None"
           [] severity.str = "1" -> "Low"
           [] severity.str = "2" -> "Medium"
           [] severity.str = "3" -> "High"
           [] severity.str = "4" -> "Critical"
           [] OTHER -> "Unknown"

\* NessusTransformer.severity_mapping.get(severity, "Info")
severity_mapping(severity) ==
    CASE severity = "0" -> "Info"
      [] severity = "1" -> "Low"
      [] severity = "2" -> "Medium"
      [] severity = "3" -> "High"
      [] severity = "4" -> "Critical"
      [] OTHER -> "Info"

\* host_properties.get("host-fqdn", host_properties.get("host-ip", ""))
AssetNameOf(host_properties) ==
    GetOr(host_properties, "host-fqdn", GetOr(host_properties, "host-ip", ""))

\* The dict extract_vulnerabilities builds for one ReportItem (lines 50-69).
\* Of its fields the model keeps those a later stage reads.
RawVuln(host_properties, report_item) ==
    [Asset_Name |-> AssetNameOf(host_properties),
     IP |-> GetOr(host_properties, "host-ip", ""),
     Asset_IP |-> GetOr(host_properties, "host-ip", ""),
     Plugin_ID |-> GetOr(report_item, "pluginID", ""),
     Severity |-> GetOr(report_item, "severity", "0"),
     Risk |-> _map_severity_to_risk(PyStr(GetOr(report_item, "severity", "0"))),
     Port |-> GetOr(report_item, "port", "")]

\* The ReportItem loop of one ReportHost: severity "0" items are left out.
RECURSIVE HostVulns(_, _)
HostVulns(host_properties, items) ==
    IF items = <<>> THEN <<>>
    ELSE LET rest == HostVulns(host_properties, Front(items))
             item == items[Len(items)]
         IN  IF GetOr(item, "severity", "0") = "0" THEN rest
             ELSE Append(rest, RawVuln(host_properties, item))

\* NessusExtractor.extract_vulnerabilities
RECURSIVE extract_vulnerabilities(_)
extract_vulnerabilities(hosts) ==
    IF hosts = <<>> THEN <<>>
    ELSE extract_vulnerabilities(Front(hosts))
            \o HostVulns(hosts[Len(hosts)].properties, hosts[Len(hosts)].items)

\* NessusExtractor.extract_assets
extract_assets(hosts) ==
    [i \in 1..Len(hosts) |->
        [Asset_Name |-> AssetNameOf(hosts[i].properties),
         Asset_IP |-> GetOr(hosts[i].properties, "host-ip", ""),
         Type |-> "Host"]]

\* NessusTransformer.transform_vulnerabilities
transform_vulnerabilities(raw_vulns) ==
    [i \in 1..Len(raw_vulns) |->
        [Asset_Name |-> GetOr(raw_vulns[i], "Asset_Name", ""),
         Status |-> "Open",
         Risk |-> severity_mapping(GetOr(raw_vulns[i], "Severity", "0")),
         Severity |-> severity_mapping(GetOr(raw_vulns[i], "Severity", "0")),
         Scanner |-> "Nessus",
         IP |-> GetOr(raw_vulns[i], "IP", "")]]

\* NessusTransformer.transform_assets
transform_assets(raw_assets) ==
    [i \in 1..Len(raw_assets) |->
        [Asset_Name |-> GetOr(raw_assets[i], "Asset_Name", ""),
         Type |-> GetOr(raw_assets[i], "Type", "Host"),
         Asset_IP |-> GetOr(raw_assets[i], "Asset_IP", "")]]

-----------------------------------------------------------------------------
(* Metrics: MTTRCalculator, MetricsGenerator, ReportingTablesManager.  The *)
(* values of a metrics dict are Python values: None, an int, a float (kept *)
(* as a whole number of hundredths), a str or a nested dict.               *)

PyNone == [type |-> "NoneType"]

PyFloat(h) == [type |-> "float", hundredths |-> h]

PyDict(d) == [type |-> "dict", dict |-> d]

PyList(l) == [type |-> "list", list |-> l]

\* Python floats are binary doubles: a quotient n / d is the nearest number
\* with a significand of 53 bits, a tie going to the even significand.
\* Normalised doubles n or d until d <= n < 2 * d, which leaves the
\* significand as it is.
RECURSIVE Normalised(_, _)
Normalised(n, d) ==
    IF n < d THEN Normalised(2 * n, d)
    ELSE IF n >= 2 * d THEN Normalised(n, 2 * d)
    ELSE <<n, d>>

\* Long division of n / d with d <= n < 2 * d: the leading bit of the
\* significand, which is 1, and the bits that follow it, four at a step.
\* remainder is what is left to divide and low the significand so far
\* modulo 256.
RECURSIVE DivisionBits(_, _, _)
DivisionBits(n, d, steps_left) ==
    IF steps_left = 0 THEN [remainder |-> n - d, low |-> 1]
    ELSE Bind(DivisionBits(n, d, steps_left - 1), LAMBDA so_far :
            [remainder |-> (16 * so_far.remainder) % d,
             low |-> (16 * so_far.low + (16 * so_far.remainder) \div d) % 256])

\* The double n / d for n > 0 and d > 0, as far as rounding needs it: the
\* significand modulo 256, the amount error / d by which the significand
\* exceeds the exact quotient (in units of the last place), and whether the
\* product of the double and 100 takes 60 bits rather than 59.
FloatDivision(n, d) ==
    Bind(Normalised(n, d), LAMBDA nd :
    Bind(DivisionBits(nd[1], nd[2], 13), LAMBDA long :
    Bind(\/ 2 * long.remainder > nd[2]
         \/ 2 * long.remainder = nd[2] /\ long.low % 2 = 1, LAMBDA up :
        [d |-> nd[2],
         low |-> IF up THEN (long.low + 1) % 256 ELSE long.low,
         error |-> IF up THEN nd[2] - long.remainder ELSE 0 - long.remainder,
         wide |-> \/ 25 * nd[1] > 32 * nd[2]
                  \/ 25 * nd[1] = 32 * nd[2] /\ up])))

\* round(x, 0) on the double x that stands for n / d, n >= 0 and d > 0:
\* the nearest whole number to the double.  When n / d lies halfway, the
\* double decides: above it rounds up, below it rounds down, and a double
\* that is the halfway value goes to the even number.
Round(n, d, float_error) ==
    Bind(n \div d, LAMBDA q :
    Bind(n % d, LAMBDA r :
        IF 2 * r > d THEN q + 1
        ELSE IF 2 * r < d THEN q
        ELSE IF float_error > 0 THEN q + 1
        ELSE IF float_error < 0 THEN q
        ELSE IF q % 2 = 0 THEN q ELSE q + 1))

\* round(part / whole * 100, 2).  The double that is rounded is the product
\* of the double part / whole and 100: the product of the quotient's
\* significand and 100 is rounded to 53 bits again, a tie going to the even
\* significand, and excess has the sign of what the double exceeds the
\* exact percentage by.
RoundedPercent(part, whole) ==
    IF part = 0 THEN PyFloat(0)
    ELSE Bind(FloatDivision(part, whole), LAMBDA quotient :
         Bind(IF quotient.wide THEN 128 ELSE 64, LAMBDA unit :
         Bind((100 * quotient.low) % (2 * unit), LAMBDA product :
         Bind(product % unit, LAMBDA low :
         Bind(\/ 2 * low > unit
              \/ 2 * low = unit /\ product >= unit, LAMBDA up :
         Bind((IF up THEN unit - low ELSE 0 - low) * quotient.d + 100 * quotient.error,
              LAMBDA excess :
            PyFloat(Round(part * 10000, whole, excess))))))))

\* round(amount / days, 2)
RoundedRate(amount, days) ==
    IF amount = 0 THEN PyFloat(0)
    ELSE PyFloat(Round(amount * 100, days, FloatDivision(amount, days).error))

\* select('id', count='exact') with the given eq filters: the number of
\* rows of the table whose fields have the values of the filter.
CountWhere(table, filter) ==
    Cardinality({i \in 1..Len(table) : \A f \in DOMAIN filter : table[i][f] = filter[f]})

NoFilter == <<>>

\* The reply of rpc('calculate_mttr_overall').execute() when it returns
\* rows; a request that fails raises.
RpcReturns(rows) == [raised |-> FALSE, data |-> rows]

\* The days from first_seen to last_seen, summed over the rows.
RECURSIVE DaysToRemediate(_)
DaysToRemediate(rows) ==
    IF rows = <<>> THEN 0
    ELSE DaysToRemediate(Front(rows)) + (rows[Len(rows)].last_seen - rows[Len(rows)].first_seen)

\* The ways the database can answer calculate_mttr_overall when there is
\* nothing to average: it does not have the function, the function returns
\* no row, or it returns one row whose mttr_days is NULL.
DatabaseVariants == {"no_function", "no_row", "null_row"}

\* The database function calculate_mttr_overall: the mean number of days
\* from first_seen to last_seen over the remediated findings.
DbCalculateMttrOverall(st, db) ==
    LET remediated == SelectSeq(st.vulnerability_scans,
                                LAMBDA row : row.remediation_status = "remediated")
    IN  IF db \in {"no_function", "no_snapshots_table"} THEN [raised |-> TRUE, data |-> <<>>]
        ELSE IF remediated # <<>>
        THEN RpcReturns(<<[mttr_days |-> RoundedRate(DaysToRemediate(remediated), Len(remediated))]>>)
        ELSE IF db = "no_row" THEN RpcReturns(<<>>)
        ELSE RpcReturns(<<[mttr_days |-> PyNone]>>)

\* MTTRCalculator._calculate_mttr_fallback
_calculate_mttr_fallback == PyFloat(3000)

\* Variant: without rows the calculator returns None.
calculate_overall_mttr_NoneWithoutRows(st, db) ==
    LET reply == DbCalculateMttrOverall(st, db)
    IN  IF reply.raised THEN PyNone
        ELSE IF reply.data # <<>> THEN reply.data[1].mttr_days
        ELSE PyNone

\* MTTRCalculator.calculate_overall_mttr
calculate_overall_mttr(st, db) ==
    LET reply == DbCalculateMttrOverall(st, db)
    IN  IF reply.raised THEN PyNone
        ELSE IF reply.data # <<>> THEN reply.data[1].mttr_days
        ELSE _calculate_mttr_fallback

\* MetricsGenerator.calculate_remediation_capacity
calculate_remediation_capacity(st) ==
    LET total_count == CountWhere(st.vulnerability_scans, NoFilter)
        open_count == CountWhere(st.vulnerability_scans, [remediation_status |-> "open"])
        remediated_count == total_count - open_count
    IN  [total_vulnerabilities |-> PyInt(total_count),
         open_vulnerabilities |-> PyInt(open_count),
         remediated_vulnerabilities |-> PyInt(remediated_count),
         remediation_rate_percentage |->
            IF total_count > 0 THEN RoundedPercent(remediated_count, total_count) ELSE PyInt(0),
         capacity_utilization |-> PyStr("medium")]

\* MetricsGenerator.calculate_average_daily_remediation: the sessions are
\* read in the order of their dates (line 97), so the first is the earliest
\* and the last the latest.
calculate_average_daily_remediation(st) ==
    LET sessions == st.scan_sessions
        total_vulns == CountWhere(st.vulnerability_scans, NoFilter)
    IN  IF Len(sessions) < 2
        THEN [average_daily_remediation |-> PyInt(0),
              trend |-> PyStr("insufficient_data"),
              period_days |-> PyInt(0)]
        ELSE LET dates == {sessions[i].scan_date : i \in 1..Len(sessions)}
                 first_scan == CHOOSE date \in dates : \A other \in dates : date <= other
                 last_scan == CHOOSE date \in dates : \A other \in dates : other <= date
                 \* (last_scan - first_scan).days: the clock of the model counts days
                 diff == last_scan - first_scan
                 period_days == IF diff = 0 THEN 1 ELSE diff
             IN  [average_daily_remediation |->
                     IF period_days > 0 THEN RoundedRate(total_vulns, period_days) ELSE PyInt(0),
                  trend |-> PyStr("stable"),
                  period_days |-> PyInt(period_days),
                  total_period_vulnerabilities |-> PyInt(total_vulns)]

\* MetricsGenerator.calculate_campaign_coverage
calculate_campaign_coverage(st) ==
    [total_campaigns |-> PyInt(Len(st.scan_sessions)),
     assets_covered |-> PyInt(CountWhere(st.assets, [is_active |-> TRUE])),
     campaign_effectiveness |-> PyStr("high"),
     coverage_percentage |-> PyFloat(10000)]

RiskLevels == <<"Critical", "High", "Medium", "Low">>

\* MetricsGenerator.calculate_remediation_capacity_by_risk_level
calculate_remediation_capacity_by_risk_level(st) ==
    [risk_level \in {RiskLevels[k] : k \in 1..Len(RiskLevels)} |->
        LET total == CountWhere(st.vulnerability_scans, [severity |-> risk_level])
            open_count == CountWhere(st.vulnerability_scans,
                                     [severity |-> risk_level, remediation_status |-> "open"])
            remediated == total - open_count
        IN  PyDict([total_vulnerabilities |-> PyInt(total),
                    open_vulnerabilities |-> PyInt(open_count),
                    remediated_vulnerabilities |-> PyInt(remediated),
                    remediation_rate_percentage |->
                        IF total > 0 THEN RoundedPercent(remediated, total) ELSE PyInt(0)])]

\* The view current_vulnerabilities: the most recent finding of each
\* (asset, vulnerability) pair, when it is open or reopened.
CurrentVulnerabilities(st) ==
    LET rows == st.vulnerability_scans
    IN  SelectSeq(rows, LAMBDA row :
            /\ row.remediation_status \in {"open", "reopened"}
            /\ \A j \in 1..Len(rows) :
                  (rows[j].asset_id = row.asset_id /\ rows[j].vulnerability_id = row.vulnerability_id)
                      => rows[j].id <= row.id)

\* MetricsGenerator.calculate_asset_coverage
calculate_asset_coverage(st) ==
    LET total_count == CountWhere(st.assets, NoFilter)
        active_count == CountWhere(st.assets, [is_active |-> TRUE])
        assets_with_vulns == CurrentVulnerabilities(st)
        unique_vulnerable_assets ==
            Cardinality({assets_with_vulns[i].asset_id : i \in 1..Len(assets_with_vulns)})
    IN  [total_assets |-> PyInt(total_count),
         active_assets |-> PyInt(active_count),
         assets_with_vulnerabilities |-> PyInt(unique_vulnerable_assets),
         coverage_percentage |->
            IF active_count > 0 THEN RoundedPercent(unique_vulnerable_assets, active_count)
            ELSE PyInt(0)]

\* MetricsGenerator.calculate_remediation_by_business_group
calculate_remediation_by_business_group(st) ==
    LET business_groups == st.business_groups
    IN  IF business_groups = <<>>
        THEN [message |-> PyStr("No business groups configured"), groups |-> PyDict(<<>>)]
        ELSE [group_name \in {business_groups[k].name : k \in 1..Len(business_groups)} |->
                PyDict([total_vulnerabilities |-> PyInt(0),
                        remediated_vulnerabilities |-> PyInt(0),
                        remediation_rate |-> PyFloat(0),
                        average_mttr_days |-> PyFloat(3000)])]

\* The view vulnerability_trends: one row for each definition that has
\* findings, with the number of hosts it was found on and the number of
\* its findings that are open.
VulnerabilityTrends(st) ==
    LET rows == st.vulnerability_scans
        found == SelectSeq(st.vulnerability_definitions, LAMBDA d :
                    \E i \in 1..Len(rows) : rows[i].vulnerability_id = d.id)
    IN  [k \in 1..Len(found) |->
            [vulnerability_name |-> found[k].vulnerability_name,
             affected_assets |->
                Cardinality({rows[i].asset_id : i \in {j \in 1..Len(rows) :
                                                        rows[j].vulnerability_id = found[k].id}}),
             currently_open |->
                CountWhere(rows, [vulnerability_id |-> found[k].id, remediation_status |-> "open"])]]

\* order('affected_assets', desc=True): the rows with the most affected
\* assets first, rows with as many in the order of the view.
RECURSIVE OrderByAffectedAssets(_)
OrderByAffectedAssets(rows) ==
    IF rows = <<>> THEN <<>>
    ELSE LET ordered == OrderByAffectedAssets(Front(rows))
             row == rows[Len(rows)]
         IN  SelectSeq(ordered, LAMBDA r : r.affected_assets >= row.affected_assets)
             \o <<row>>
             \o SelectSeq(ordered, LAMBDA r : r.affected_assets < row.affected_assets)

\* MetricsGenerator.get_vulnerability_trends
get_vulnerability_trends(st) ==
    LET view == OrderByAffectedAssets(VulnerabilityTrends(st))
        \* limit(10)
        trends == SubSeq(view, 1, IF Len(view) < 10 THEN Len(view) ELSE 10)
    IN  [top_vulnerabilities |->
            PyList([k \in 1..Len(trends) |->
                       PyDict([vulnerability_name |-> PyStr(trends[k].vulnerability_name),
                               affected_assets |-> PyInt(trends[k].affected_assets),
                               currently_open |-> PyInt(trends[k].currently_open),
                               trend |-> PyStr("stable")])]),
         total_unique_vulnerabilities |-> PyInt(Len(trends))]

\* MetricsGenerator.generate_comprehensive_metrics.  The timestamp of the
\* report is left out.
generate_comprehensive_metrics(st) ==
    [remediation_capacity |-> PyDict(calculate_remediation_capacity(st)),
     daily_remediation |-> PyDict(calculate_average_daily_remediation(st)),
     campaign_coverage |-> PyDict(calculate_campaign_coverage(st)),
     remediation_by_business_group |-> PyDict(calculate_remediation_by_business_group(st)),
     remediation_capacity_by_risk |-> PyDict(calculate_remediation_capacity_by_risk_level(st)),
     vulnerability_trends |-> PyDict(get_vulnerability_trends(st)),
     asset_coverage |-> PyDict(calculate_asset_coverage(st))]

\* The categories of the metrics dict and the names of each category, in
\* the order the dicts are built.
MetricCategories ==
    <<"remediation_capacity", "daily_remediation", "campaign_coverage",
      "remediation_by_business_group", "remediation_capacity_by_risk",
      "vulnerability_trends", "asset_coverage">>

MetricNames ==
    [remediation_capacity |-> <<"total_vulnerabilities", "open_vulnerabilities",
                                "remediated_vulnerabilities", "remediation_rate_percentage",
                                "capacity_utilization">>,
     daily_remediation |-> <<"average_daily_remediation", "trend", "period_days",
                             "total_period_vulnerabilities">>,
     campaign_coverage |-> <<"total_campaigns", "assets_covered", "campaign_effectiveness",
                             "coverage_percentage">>,
     remediation_by_business_group |-> <<"message", "groups">>,
     remediation_capacity_by_risk |-> RiskLevels,
     vulnerability_trends |-> <<"top_vulnerabilities", "total_unique_vulnerabilities">>,
     asset_coverage |-> <<"total_assets", "active_assets", "assets_with_vulnerabilities",
                          "coverage_percentage">>]

\* The (category, name) pairs of the numeric values of a metrics dict, in
\* the order _store_individual_metrics visits them (lines 69-82).
RECURSIVE NumericMetrics(_, _, _)
NumericMetrics(metrics, c, n) ==
    IF c > Len(MetricCategories) THEN <<>>
    ELSE LET category == MetricCategories[c]
             names == MetricNames[category]
         IN  IF metrics[category].type # "dict" \/ n > Len(names)
             THEN NumericMetrics(metrics, c + 1, 1)
             ELSE LET data == metrics[category].dict
                      rest == NumericMetrics(metrics, c, n + 1)
                      value == data[names[n]]
                  \* isinstance(value, (int, float)) and float(value), in hundredths
                  IN  IF names[n] \in DOMAIN data /\ value.type \in {"int", "float"}
                      THEN <<[metric_category |-> category, metric_name |-> names[n],
                              metric_value |-> IF value.type = "int" THEN value.int * 100
                                               ELSE value.hundredths]>> \o rest
                      ELSE rest

\* ReportingTablesManager._store_individual_metrics
_store_individual_metrics(st, snapshot_id, metrics) ==
    Bind(NumericMetrics(metrics, 1, 1), LAMBDA metric_values :
        [st EXCEPT !.metric_values =
            @ \o [k \in 1..Len(metric_values) |->
                    [id |-> Len(@) + k,
                     snapshot_id |-> snapshot_id,
                     metric_category |-> metric_values[k].metric_category,
                     metric_name |-> metric_values[k].metric_name,
                     metric_value |-> metric_values[k].metric_value]]])

\* ReportingTablesManager.store_metrics_snapshot: an insert that raises is
\* logged and None is returned.  The database "no_snapshots_table" has
\* neither the MTTR function nor the table metrics_snapshots.
store_metrics_snapshot(st, metrics, db) ==
    LET snapshot_id == Len(st.metrics_snapshots) + 1
        inserted == [st EXCEPT !.metrics_snapshots =
                        Append(@, [id |-> snapshot_id, metrics_data |-> metrics,
                                   snapshot_type |-> "comprehensive"])]
    IN  IF db = "no_snapshots_table"
        THEN [store |-> st, stored |-> FALSE, snapshot_id |-> None]
        ELSE [store |-> _store_individual_metrics(inserted, snapshot_id, metrics),
              stored |-> TRUE, snapshot_id |-> snapshot_id]

\* ReportingTablesManager.update_mttr_history
update_mttr_history(st, mttr_days) ==
    [st EXCEPT !.mttr_history =
        Append(@, [id |-> Len(@) + 1, overall_mttr_days |-> mttr_days])]

\* Variant: the run also stamps the latest scan session with the id of the
\* snapshot made from it.
generate_metrics_StampsSession(st, db) ==
    Bind(generate_comprehensive_metrics(st), LAMBDA metrics :
    LET mttr_overall == calculate_overall_mttr(st, db)
        snapshot == store_metrics_snapshot(st, metrics, db)
        stamped == [snapshot.store EXCEPT !.scan_sessions =
                       [k \in 1..Len(@) |->
                           IF k = Len(@) THEN SetField(@[k], "snapshot_id", snapshot.snapshot_id)
                           ELSE @[k]]]
    IN  [store |-> IF mttr_overall.type # "NoneType"
                   THEN update_mttr_history(stamped, mttr_overall)
                   ELSE stamped,
         ok |-> TRUE, mttr_overall |-> mttr_overall, metrics |-> metrics])

\* SupabaseTimeSeriesLoader.generate_metrics: the MTTR figures, the metrics
\* dict, the snapshot, the history row.
generate_metrics(st, db) ==
    Bind(generate_comprehensive_metrics(st), LAMBDA metrics :
    LET mttr_overall == calculate_overall_mttr(st, db)
        snapshot == store_metrics_snapshot(st, metrics, db)
    IN  [store |-> IF mttr_overall.type # "NoneType"
                   THEN update_mttr_history(snapshot.store, mttr_overall)
                   ELSE snapshot.store,
         ok |-> TRUE, mttr_overall |-> mttr_overall, metrics |-> metrics])

-----------------------------------------------------------------------------
(* The enhanced pipeline *)

InitStats ==
    [files_processed |-> 0, assets_loaded |-> 0, vulnerabilities_loaded |-> 0,
     metrics_generated |-> FALSE, errors |-> <<>>]

NotCalled == [state |-> "not_called", error |-> <<>>, resolved |-> <<>>]

ResolverResult(r) ==
    [state |-> IF r.raised THEN "raised" ELSE "returned", error |-> r.error, resolved |-> r.resolved]

\* EnhancedNessusETLPipeline._generate_metrics: the same steps as
\* SupabaseTimeSeriesLoader.generate_metrics, on the pipeline's own
\* calculator, generator and reporting manager.
_generate_metrics(st, db) == generate_metrics(st, db)

\* Variant: a file that failed is counted as processed.
ProcessFailed_CountsFile(st, sid, stats0, path, error, cur, prev, res, clock) ==
    [raised |-> TRUE, error |-> error, store |-> st, sid |-> sid, now |-> clock,
     stats |-> [stats0 EXCEPT !.errors = Append(@, <<"Error processing", path, error>>),
                              !.files_processed = @ + 1],
     file_stats |-> [file_path |-> path, success |-> FALSE, metrics_generated |-> FALSE,
                     assets_loaded |-> 0, vulnerabilities_loaded |-> 0],
     loaded |-> <<>>,
     current |-> cur, previous |-> prev, resolver |-> res]

\* The except clause of process_nessus_file (lines 110-115).
ProcessFailed(st, sid, stats0, path, error, cur, prev, res, clock) ==
    [raised |-> TRUE, error |-> error, store |-> st, sid |-> sid, now |-> clock,
     stats |-> [stats0 EXCEPT !.errors = Append(@, <<"Error processing", path, error>>)],
     file_stats |-> [file_path |-> path, success |-> FALSE, metrics_generated |-> FALSE,
                     assets_loaded |-> 0, vulnerabilities_loaded |-> 0],
     loaded |-> <<>>,
     current |-> cur, previous |-> prev, resolver |-> res]

\* EnhancedNessusETLPipeline.process_nessus_file
process_nessus_file(st, sid, stats0, path, generate_metrics_flag, clock, db) ==
    IF path \notin DOMAIN Disk
    THEN ProcessFailed(st, sid, stats0, path, "FileNotFoundError", <<>>, <<>>, NotCalled, clock)
    ELSE
    Bind(create_scan_session(st, path, <<>>, clock), LAMBDA session :
    Bind(extract_vulnerabilities(Disk[path]), LAMBDA raw_vulnerabilities :
    Bind(transform_vulnerabilities(raw_vulnerabilities), LAMBDA transformed_vulnerabilities :
    Bind(transform_assets(extract_assets(Disk[path])), LAMBDA transformed_assets :
    Bind(resolve_remediation_status(transformed_vulnerabilities, raw_vulnerabilities), LAMBDA res :
        IF res.raised
        THEN ProcessFailed(session.store, session.id, stats0, path, res.error[1],
                           res.current, res.previous, ResolverResult(res), session.now)
        ELSE
        Bind(load_assets(session.store, session.id, transformed_assets, session.now), LAMBDA la :
        Bind(load_vulnerabilities(la.store, session.id, res.resolved, session.now), LAMBDA lv :
        Bind(update_scan_session_stats(lv.store, session.id,
                                       Len(transformed_assets), Len(res.resolved)), LAMBDA upd :
        Bind(IF generate_metrics_flag THEN _generate_metrics(upd, db)
             ELSE [store |-> upd, ok |-> FALSE], LAMBDA gm :
            [raised |-> FALSE, error |-> None, store |-> gm.store, sid |-> session.id,
             now |-> lv.now,
             stats |-> [stats0 EXCEPT !.files_processed = @ + 1,
                                      !.assets_loaded = @ + la.processed_count,
                                      !.vulnerabilities_loaded = @ + lv.processed_count,
                                      !.metrics_generated = IF generate_metrics_flag THEN gm.ok ELSE @],
             file_stats |-> [file_path |-> path, success |-> TRUE, metrics_generated |-> gm.ok,
                             assets_loaded |-> 0, vulnerabilities_loaded |-> 0],
             loaded |-> <<la.processed_count, lv.processed_count>>,
             current |-> res.current, previous |-> res.previous,
             resolver |-> ResolverResult(res)])))))))))

\* Variant: the first file that fails ends the loop.
ProcessDirectoryStep_StopAtFailure(acc, file_path, is_last_file, generate_metrics_flag, db) ==
    IF \E i \in 1..Len(acc.calls) : acc.calls[i].raised THEN acc
    ELSE
    Bind(process_nessus_file(acc.store, acc.sid, acc.stats, file_path,
                             generate_metrics_flag /\ is_last_file, acc.now, db), LAMBDA r :
        [store |-> r.store, sid |-> r.sid, stats |-> r.stats, now |-> r.now,
         file_results |-> Append(acc.file_results,
                                 IF r.raised THEN [file_path |-> file_path, success |-> FALSE]
                                 ELSE r.file_stats),
         calls |-> Append(acc.calls, [path |-> file_path,
                                      generate_metrics |-> generate_metrics_flag /\ is_last_file,
                                      raised |-> r.raised]),
         current |-> r.current, previous |-> r.previous, resolver |-> r.resolver])

\* EnhancedNessusETLPipeline.process_directory: one pass of the loop
\* (lines 184-194).  acc.calls lists the calls of process_nessus_file made
\* so far: the path, the generate_metrics argument and whether it raised.
ProcessDirectoryStep(acc, file_path, is_last_file, generate_metrics_flag, db) ==
    Bind(process_nessus_file(acc.store, acc.sid, acc.stats, file_path,
                             generate_metrics_flag /\ is_last_file, acc.now, db), LAMBDA r :
        [store |-> r.store, sid |-> r.sid, stats |-> r.stats, now |-> r.now,
         file_results |-> Append(acc.file_results,
                                 IF r.raised THEN [file_path |-> file_path, success |-> FALSE]
                                 ELSE r.file_stats),
         calls |-> Append(acc.calls, [path |-> file_path,
                                      generate_metrics |-> generate_metrics_flag /\ is_last_file,
                                      raised |-> r.raised]),
         current |-> r.current, previous |-> r.previous, resolver |-> r.resolver])

RECURSIVE ProcessDirectoryLoop(_, _, _, _, _)
ProcessDirectoryLoop(start, nessus_files, k, generate_metrics_flag, db) ==
    IF k = 0 THEN start
    ELSE Bind(ProcessDirectoryLoop(start, nessus_files, k - 1, generate_metrics_flag, db),
              LAMBDA acc : ProcessDirectoryStep(acc, nessus_files[k],
                                                nessus_files[k] = nessus_files[Len(nessus_files)],
                                                generate_metrics_flag, db))

\* len([r for r in file_results if r.get("success", False)])
Successful(file_results) ==
    Cardinality({i \in 1..Len(file_results) : file_results[i].success})

\* EnhancedNessusETLPipeline.process_directory.  A directory is whether it
\* exists and the paths glob("*.nessus") lists.
process_directory(st, sid, stats0, directory, generate_metrics_flag, clock, db) ==
    LET start == [store |-> st, sid |-> sid, stats |-> stats0, now |-> clock,
                  file_results |-> <<>>, calls |-> <<>>,
                  current |-> <<>>, previous |-> <<>>, resolver |-> NotCalled]
    IN  IF ~directory.exists
        THEN [raised |-> TRUE, error |-> "FileNotFoundError", summary |-> None, run |-> start]
        ELSE IF directory.nessus_files = <<>>
        THEN [raised |-> FALSE, error |-> None, run |-> start,
              summary |-> [total_files |-> 0, successful_files |-> 0, failed_files |-> 0]]
        ELSE Bind(ProcessDirectoryLoop(start, directory.nessus_files, Len(directory.nessus_files),
                                       generate_metrics_flag, db), LAMBDA run :
                 [raised |-> FALSE, error |-> None, run |-> run,
                  summary |-> [total_files |-> Len(directory.nessus_files),
                               successful_files |-> Successful(run.file_results),
                               failed_files |-> Len(run.file_results) - Successful(run.file_results),
                               total_assets_loaded |-> run.stats.assets_loaded,
                               total_vulnerabilities_loaded |-> run.stats.vulnerabilities_loaded,
                               metrics_generated |-> run.stats.metrics_generated]])

-----------------------------------------------------------------------------
(* Inputs *)

\* Findings handed to the resolver as the current scan: three keys on two
\* ports, one dict that already carries a status, two dicts without a key.
CurrentUniverse ==
    {[asset_id |-> k[1], plugin_id |-> k[2], IP |-> k[3], Port |-> p] :
        k \in {<<"A", "V1", "10.0.0.1">>, <<"A", "V2", "10.0.0.1">>, <<"B", "V1", "10.0.0.2">>},
        p \in {"80", "443"}}
    \cup {[asset_id |-> "A", plugin_id |-> "V1", IP |-> "10.0.0.1", Port |-> "80",
           remediation_status |-> "remediated"],
          [plugin_id |-> "V1", IP |-> "10.0.0.1", Port |-> "80"],
          [asset_id |-> "A", IP |-> "10.0.0.1", Port |-> "80"]}

\* Findings handed to the resolver as the previous set: the same keys with
\* no status, open or remediated, one reopened, two dicts without a key.
PreviousUniverse ==
    {[asset_id |-> k[1], plugin_id |-> k[2], IP |-> k[3], Port |-> "80"] :
        k \in {<<"A", "V1", "10.0.0.1">>, <<"A", "V2", "10.0.0.1">>, <<"B", "V1", "10.0.0.2">>}}
    \cup {[asset_id |-> k[1], plugin_id |-> k[2], IP |-> k[3], Port |-> "80", remediation_status |-> s] :
        k \in {<<"A", "V1", "10.0.0.1">>, <<"A", "V2", "10.0.0.1">>, <<"B", "V1", "10.0.0.2">>},
        s \in {"open", "remediated"}}
    \cup {[asset_id |-> "A", plugin_id |-> "V1", IP |-> "10.0.0.1", Port |-> "443",
           remediation_status |-> "reopened"],
          [plugin_id |-> "V1", IP |-> "10.0.0.1", Port |-> "80", remediation_status |-> "open"],
          [asset_id |-> "A", IP |-> "10.0.0.1", Port |-> "80", remediation_status |-> "open"]}

\* Observed hosts handed to load_assets.
AssetUniverse ==
    {[Asset_Name |-> "Web1", Asset_IP |-> "10.0.0.1", Type |-> "Host"],
     [Asset_Name |-> "db1", Asset_IP |-> "10.0.0.2", Type |-> "Host"],
     [Asset_Name |-> "nowhere", Asset_IP |-> "", Type |-> "Host"]}

\* Findings handed to load_vulnerabilities: a finding as extracted, findings
\* as the resolver returns them, one without an address, one without a
\* plugin id.
VulnUniverse ==
    {[Asset_Name |-> "Web1", IP |-> "10.0.0.1", Asset_IP |-> "10.0.0.1", Plugin_ID |-> "V1",
      Severity |-> "3", Risk |-> "High", Port |-> "80"],
     [asset_id |-> "B", plugin_id |-> "V2", IP |-> "10.0.0.2", Port |-> "443",
      remediation_status |-> "remediated"],
     [asset_id |-> "A", plugin_id |-> "V1", IP |-> "10.0.0.1", Port |-> "80",
      remediation_status |-> "reopened"],
     [Asset_Name |-> "Web1", Plugin_ID |-> "V2", Severity |-> "1", Risk |-> "Low", Port |-> "80"],
     [Asset_Name |-> "Web1", IP |-> "10.0.0.1", Severity |-> "2", Risk |-> "Medium", Port |-> "80"]}

NoCall == [op |-> "none"]

NoArguments == <<>>

\* The tables as a metrics run can find them: the sessions of earlier
\* scans, the hosts found, and findings of two plugins on the first host.
\* The database outlives the runs of the pipeline and is shared with the
\* writers that keep the remediation status of the findings (the loader
\* itself stores every finding as open, line 296), so the findings are
\* drawn with each status the metrics queries tell apart.
StoredAsset(k) ==
    IF k = 1
    THEN [id |-> 1, fingerprint |-> <<"ip_host", "10.0.0.1", "web1">>, current_hostname |-> "Web1",
          current_ip_address |-> "10.0.0.1", current_os |-> None, scan_session_id |-> NoSession,
          is_active |-> TRUE]
    ELSE [id |-> k, fingerprint |-> <<"ip", "10.0.0.2">>, current_hostname |-> None,
          current_ip_address |-> "10.0.0.2", current_os |-> None, scan_session_id |-> NoSession,
          is_active |-> TRUE]

StoredDefinition(k) ==
    IF k = 1 THEN [id |-> 1, plugin_id |-> "V1", vulnerability_name |-> "", risk_factor |-> "High"]
    ELSE [id |-> k, plugin_id |-> "V2", vulnerability_name |-> "", risk_factor |-> "Low"]

FindingTemplates ==
    {[vulnerability_id |-> d, remediation_status |-> status] :
        d \in 1..2, status \in {"open", "remediated", "reopened"}}

\* The row of a finding of the first host, found by the first session and
\* stored at time seen.
StoredFinding(id, template, seen) ==
    [id |-> id, asset_id |-> 1, vulnerability_id |-> template.vulnerability_id,
     scan_session_id |-> 1, status |-> "open",
     severity |-> StoredDefinition(template.vulnerability_id).risk_factor,
     first_seen |-> seen, last_seen |-> seen, scan_date |-> seen,
     remediation_status |-> template.remediation_status]

StoredTables(sessions, assets, findings) ==
    [EmptyStore EXCEPT
        !.scan_sessions = [k \in 1..sessions |->
                              [id |-> k, scan_file_name |-> "v1.nessus", scan_date |-> k]],
        !.assets = [k \in 1..assets |-> StoredAsset(k)],
        !.vulnerability_definitions =
            [k \in 1..(IF findings = <<>> THEN 0 ELSE 2) |-> StoredDefinition(k)],
        !.vulnerability_scans =
            [i \in 1..Len(findings) |-> StoredFinding(i, findings[i], sessions + i)]]

\* A finding belongs to a session and a host: there are findings only
\* where there is a session and a host.
StoreUniverse ==
    UNION {UNION {{StoredTables(sessions, assets, findings) :
                        findings \in {f \in SeqsUpTo(FindingTemplates, MaxStoredFindings) :
                                        f = <<>> \/ (sessions > 0 /\ assets > 0)}} :
                    assets \in 0..MaxStoredAssets} :
            sessions \in 0..MaxStoredSessions}

\* Observed hosts handed to upsert_asset: one address seen under two
\* hostnames with a MAC address, with an OS descriptor, with both and with
\* neither, a second address, and hosts whose address is empty or missing.
ObservedHostUniverse ==
    {[Asset_Name |-> "Web1", Asset_IP |-> "10.0.0.1", MAC_Address |-> "AA:BB"],
     [Asset_Name |-> "db1", Asset_IP |-> "10.0.0.1", MAC_Address |-> "aa:bb"],
     [Asset_Name |-> "db1", Asset_IP |-> "10.0.0.1", MAC_Address |-> "AA:BB",
      Operating_System |-> "Linux 5.4"],
     [Asset_Name |-> "Web1", Asset_IP |-> "10.0.0.1", Operating_System |-> "Linux 5.4"],
     [Asset_Name |-> "db1", Asset_IP |-> "10.0.0.1", Operating_System |-> "Linux 5.4"],
     [Asset_Name |-> "Web1", Asset_IP |-> "10.0.0.1"],
     [Asset_Name |-> "db1", Asset_IP |-> "10.0.0.1"],
     [Asset_Name |-> "db1", Asset_IP |-> "10.0.0.2", Operating_System |-> "Linux 5.4"],
     [Asset_Name |-> "nowhere", Asset_IP |-> ""],
     [Asset_Name |-> "nowhere"]}

\* Findings handed to upsert_vulnerability_definition: two plugin ids under
\* either spelling of the key, with changing descriptive fields, and
\* findings whose plugin id is empty or missing.
DefinitionUniverse ==
    {[Plugin_ID |-> "V1", Vulnerability_Name |-> "SSL", Risk |-> "High"],
     [Plugin_ID |-> "V1", Vulnerability_Name |-> "SSL v2", Risk |-> "Critical"],
     [plugin_id |-> "V1", risk_factor |-> "Low"],
     [Plugin_ID |-> "V2", Vulnerability_Name |-> "SSH", Risk |-> "Low"],
     [Plugin_ID |-> "", Vulnerability_Name |-> "SSL"],
     [Vulnerability_Name |-> "SSL", Risk |-> "High"]}

-----------------------------------------------------------------------------
(* Specification of the diff engine: the two argument lists are drawn in   *)
(* the initial state and the call is applied to them.                      *)

InitResolver ==
    /\ current_vulns \in SeqsUpTo(CurrentUniverse, MaxCur)
    /\ previous_vulns \in SeqsUpTo(PreviousUniverse, MaxPrev)
    /\ result = NotCalled
    /\ store = EmptyStore
    /\ current_scan_session_id = NoSession
    /\ stats = InitStats
    /\ call = NoCall
    /\ steps = 0
    /\ now = 1
    /\ workers = <<>>
    /\ pending = NoArguments

Resolve ==
    /\ result.state = "not_called"
    /\ LET r == resolve_remediation_status(current_vulns, previous_vulns)
       IN  /\ current_vulns' = r.current
           /\ previous_vulns' = r.previous
           /\ result' = ResolverResult(r)
    /\ call' = [op |-> "resolve_remediation_status", arg |-> <<current_vulns, previous_vulns>>]
    /\ steps' = steps + 1
    /\ UNCHANGED <<pending, workers>>
    /\ UNCHANGED <<store, current_scan_session_id, stats, now>>

NextResolver == Resolve

SpecResolver == InitResolver /\ [][NextResolver]_vars

-----------------------------------------------------------------------------
(* Specification of the pure functions: the arguments are drawn in the     *)
(* initial state and each function is applied to them.                     *)

InitFunctions ==
    /\ current_vulns = <<>>
    /\ previous_vulns = <<>>
    /\ result = NotCalled
    /\ store = EmptyStore
    /\ current_scan_session_id = NoSession
    /\ stats = InitStats
    /\ call = NoCall
    /\ steps = 0
    /\ now = 1
    /\ workers = <<>>
    \* Host attributes handed to _generate_asset_fingerprint: each optional
    \* attribute absent (None), empty, in mixed case and in lower case.
    \* Severity codes handed to the two mappings: 0 to 4 and codes outside
    \* that range, as strings and as numbers.
    /\ pending \in [fingerprint : {None, "", "Web1", "Web2", "db1"} \X {"10.0.0.1", "10.0.0.2"}
                                       \X {None, "", "AA:BB", "aa:bb"}
                                       \X {None, "", "Linux 5.4", "linux54"},
                     severity : {PyStr(c) : c \in {"0", "1", "2", "3", "4", "5", "", "High"}}
                                \cup {PyInt(n) : n \in -1..5}]

GenerateAssetFingerprint ==
    /\ call' = [op |-> "_generate_asset_fingerprint", arg |-> pending.fingerprint,
                ret |-> _generate_asset_fingerprint(pending.fingerprint[1], pending.fingerprint[2],
                                                    pending.fingerprint[3], pending.fingerprint[4])]
    /\ UNCHANGED <<current_vulns, previous_vulns, result, store, current_scan_session_id, stats,
                   steps, now, pending, workers>>

MapSeverityToRisk ==
    /\ call' = [op |-> "_map_severity_to_risk", arg |-> pending.severity,
                ret |-> _map_severity_to_risk(pending.severity)]
    /\ UNCHANGED <<current_vulns, previous_vulns, result, store, current_scan_session_id, stats,
                   steps, now, pending, workers>>

\* The risk label transform_vulnerabilities gives a finding whose Severity
\* is the Python value drawn (lines 21 and 27).
TransformSeverity ==
    /\ call' = [op |-> "severity_mapping", arg |-> pending.severity,
                ret |-> severity_mapping(Str(pending.severity))]
    /\ UNCHANGED <<current_vulns, previous_vulns, result, store, current_scan_session_id, stats,
                   steps, now, pending, workers>>

NextFunctions ==
    \/ GenerateAssetFingerprint
    \/ MapSeverityToRisk
    \/ TransformSeverity

SpecFunctions == InitFunctions /\ [][NextFunctions]_vars

-----------------------------------------------------------------------------
(* Ingestions of different scopes that run at the same time.  Each worker  *)
(* is a loader of its own (its own current_scan_session_id) on the shared  *)
(* store; a step of a worker is one request of its loader to the client,   *)
(* with the Python code around it.                                          *)

Workers == {1, 2}

\* The scope of a worker: its one host and the findings
\* of that host.
ScopeAsset(w) ==
    IF w = 1 THEN [Asset_Name |-> "Web1", Asset_IP |-> "10.0.0.1", Type |-> "Host"]
    ELSE [Asset_Name |-> "db1", Asset_IP |-> "10.0.0.2", Type |-> "Host"]

ScopeFindings(w) ==
    {[Asset_Name |-> ScopeAsset(w).Asset_Name, IP |-> ScopeAsset(w).Asset_IP,
      Plugin_ID |-> plugin, Severity |-> "High", Risk |-> "High", Port |-> "80"] :
        plugin \in {"V1", "V2"}}

\* A worker before its first step.
NewWorker(w, vulnerabilities, schema) ==
    [pc |-> "start", scan_date |-> 0, assets |-> <<ScopeAsset(w)>>,
     scan_file_path |-> IF w = 1 THEN "v1.nessus" ELSE "two.nessus",
     vulnerabilities |-> vulnerabilities, schema |-> schema,
     current_scan_session_id |-> NoSession, pos |-> 1, existing |-> <<>>,
     vuln_def_id |-> 0, asset_id |-> 0, processed_count |-> 0]

\* The position after the finding at pos is done with: the next finding
\* of the loop of load_vulnerabilities, or the end of the ingestion.
NextFinding(worker) ==
    [worker EXCEPT !.pos = @ + 1,
                   !.pc = IF worker.pos < Len(worker.vulnerabilities)
                          THEN "select_definition" ELSE "done"]

\* select('id').eq('plugin_id', plugin_id) of upsert_vulnerability_definition:
\* the ids of the matching definitions in table order.
SelectDefinitions(st, plugin_id) ==
    LET rows == SelectSeq(st.vulnerability_definitions, LAMBDA d : d.plugin_id = plugin_id)
    IN  [k \in 1..Len(rows) |-> rows[k].id]

\* update(vuln_def_data).eq('id', id) of upsert_vulnerability_definition
UpdateDefinition(st, id, vuln_data) ==
    [st EXCEPT !.vulnerability_definitions =
        [k \in 1..Len(@) |-> IF @[k].id = id THEN UpdateRow(@[k], VulnDefData(vuln_data)) ELSE @[k]]]

\* insert(vuln_def_data) of upsert_vulnerability_definition: under a unique
\* constraint the insert of a plugin id the table holds raises.
InsertDefinition(st, plugin_id, vuln_data, schema) ==
    IF schema = "unique_plugin_id" /\ SelectDefinitions(st, plugin_id) # <<>>
    THEN [raised |-> TRUE, store |-> st, id |-> 0]
    ELSE LET id == Len(st.vulnerability_definitions) + 1
         IN  [raised |-> FALSE,
              store |-> [st EXCEPT !.vulnerability_definitions = Append(@,
                            SetField(SetField(VulnDefData(vuln_data), "plugin_id", plugin_id), "id", id))],
              id |-> id]

InitIngest ==
    /\ current_vulns = <<>>
    /\ previous_vulns = <<>>
    /\ result = NotCalled
    /\ store = EmptyStore
    /\ current_scan_session_id = NoSession
    /\ stats = InitStats
    /\ call = NoCall
    /\ steps = 0
    /\ now = 1
    /\ pending = NoArguments
    \* What the database does with a second definition of one plugin id: the
    \* table has a unique constraint on plugin_id and the insert fails, or it
    \* has none and the row is stored.
    /\ \E schema \in {"unique_plugin_id", "no_constraint"} :
          \E first \in SeqsUpTo(ScopeFindings(1), MaxScopeFindings) :
             \E second \in SeqsUpTo(ScopeFindings(2), MaxScopeFindings) :
                workers = [w \in Workers |->
                              NewWorker(w, IF w = 1 THEN first ELSE second, schema)]

\* create_scan_session up to its insert: the loader reads the clock and
\* builds the row (lines 62-78) before the request is sent.  The clock
\* moves on after every reading.
WorkerStarts(w) ==
    /\ workers[w].pc = "start"
    /\ workers' = [workers EXCEPT ![w].scan_date = now, ![w].pc = "create_scan_session"]
    /\ now' = now + 1
    /\ UNCHANGED <<current_vulns, previous_vulns, result, store, current_scan_session_id, stats,
                   call, steps, pending>>

\* create_scan_session: the insert into scan_sessions of the row built
\* before, with the date read then.
WorkerCreateScanSession(w) ==
    /\ workers[w].pc = "create_scan_session"
    /\ LET r == create_scan_session(store, workers[w].scan_file_path, <<>>, workers[w].scan_date)
       IN  /\ store' = r.store
           /\ workers' = [workers EXCEPT ![w].current_scan_session_id = r.id,
                                         ![w].pc = "load_assets"]
    /\ UNCHANGED <<current_vulns, previous_vulns, result, current_scan_session_id, stats, call,
                   steps, now, pending>>

\* load_assets on the one host of the scope: the rpc of upsert_asset.  With
\* no findings load_vulnerabilities returns at once.
WorkerLoadAssets(w) ==
    /\ workers[w].pc = "load_assets"
    /\ store' = load_assets(store, workers[w].current_scan_session_id, workers[w].assets, now).store
    /\ workers' = [workers EXCEPT ![w].pc = IF workers[w].vulnerabilities = <<>>
                                            THEN "done" ELSE "select_definition"]
    /\ UNCHANGED <<current_vulns, previous_vulns, result, current_scan_session_id, stats, call,
                   steps, now, pending>>

\* upsert_vulnerability_definition up to its select; a finding without a
\* plugin id raises before the request and the loop goes on.
WorkerSelectDefinition(w) ==
    /\ workers[w].pc = "select_definition"
    /\ LET vuln == workers[w].vulnerabilities[workers[w].pos]
           plugin_id == GetOr(vuln, "Plugin_ID", Get(vuln, "plugin_id"))
       IN  workers' = [workers EXCEPT ![w] =
                          IF ~Truthy(plugin_id) THEN NextFinding(@)
                          ELSE [@ EXCEPT !.existing = SelectDefinitions(store, plugin_id),
                                         !.pc = "write_definition"]]
    /\ UNCHANGED <<current_vulns, previous_vulns, result, store, current_scan_session_id, stats,
                   call, steps, now, pending>>

\* upsert_vulnerability_definition after its select: the update of the
\* definition found or the insert of a new one, then the address check of
\* load_vulnerabilities.  An insert that raises ends the finding.
WorkerWriteDefinition(w) ==
    /\ workers[w].pc = "write_definition"
    /\ LET worker == workers[w]
           vuln == worker.vulnerabilities[worker.pos]
           plugin_id == GetOr(vuln, "Plugin_ID", Get(vuln, "plugin_id"))
           asset_ip == GetOr(vuln, "IP", GetOr(vuln, "Asset_IP", ""))
           inserted == InsertDefinition(store, plugin_id, vuln, worker.schema)
           after(id) == IF ~Truthy(asset_ip) THEN NextFinding(worker)
                        ELSE [worker EXCEPT !.vuln_def_id = id, !.pc = "select_asset"]
       IN  IF worker.existing # <<>>
           THEN /\ store' = UpdateDefinition(store, worker.existing[1], vuln)
                /\ workers' = [workers EXCEPT ![w] = after(worker.existing[1])]
           ELSE IF inserted.raised
           THEN /\ store' = store
                /\ workers' = [workers EXCEPT ![w] = NextFinding(worker)]
           ELSE /\ store' = inserted.store
                /\ workers' = [workers EXCEPT ![w] = after(inserted.id)]
    /\ UNCHANGED <<current_vulns, previous_vulns, result, current_scan_session_id, stats, call,
                   steps, now, pending>>

\* The select of the asset by its address in load_vulnerabilities: the
\* loader waits for the reply and, when an asset is found, goes on to
\* insert_vulnerability_scan with the id of the first row.
WorkerSelectAsset(w) ==
    /\ workers[w].pc = "select_asset"
    /\ LET vuln == workers[w].vulnerabilities[workers[w].pos]
           found == AssetsByIp(store, GetOr(vuln, "IP", GetOr(vuln, "Asset_IP", "")))
       IN  workers' = [workers EXCEPT ![w] =
                          IF found = <<>> THEN NextFinding(@)
                          ELSE [@ EXCEPT !.asset_id = found[1].id, !.pc = "build_scan_row"]]
    /\ UNCHANGED <<current_vulns, previous_vulns, result, store, current_scan_session_id, stats,
                   call, steps, now, pending>>

\* insert_vulnerability_scan up to its insert: the loader reads the clock
\* and builds the row (lines 280-302) before the request is sent.
WorkerBuildsScanRow(w) ==
    /\ workers[w].pc = "build_scan_row"
    /\ workers' = [workers EXCEPT ![w].scan_date = now, ![w].pc = "insert_vulnerability_scan"]
    /\ now' = now + 1
    /\ UNCHANGED <<current_vulns, previous_vulns, result, store, current_scan_session_id, stats,
                   call, steps, pending>>

\* insert_vulnerability_scan: the insert into vulnerability_scans of the
\* row built before, with the date read then.
WorkerInsertVulnerabilityScan(w) ==
    /\ workers[w].pc = "insert_vulnerability_scan"
    /\ LET worker == workers[w]
           r == insert_vulnerability_scan(store, worker.current_scan_session_id, worker.asset_id,
                                          worker.vuln_def_id, worker.vulnerabilities[worker.pos],
                                          worker.scan_date)
       IN  /\ store' = r.store
           /\ workers' = [workers EXCEPT ![w] =
                              IF r.raised THEN NextFinding(worker)
                              ELSE NextFinding([worker EXCEPT !.processed_count = @ + 1])]
    /\ UNCHANGED <<current_vulns, previous_vulns, result, current_scan_session_id, stats, call,
                   steps, now, pending>>

\* The process of the ingestion stops between two requests.
WorkerStops(w) ==
    /\ workers[w].pc \notin {"done", "stopped"}
    /\ workers' = [workers EXCEPT ![w].pc = "stopped"]
    /\ UNCHANGED <<current_vulns, previous_vulns, result, store, current_scan_session_id, stats,
                   call, steps, now, pending>>

NextIngest ==
    \E w \in Workers :
        \/ WorkerStarts(w)
        \/ WorkerCreateScanSession(w)
        \/ WorkerLoadAssets(w)
        \/ WorkerSelectDefinition(w)
        \/ WorkerWriteDefinition(w)
        \/ WorkerSelectAsset(w)
        \/ WorkerBuildsScanRow(w)
        \/ WorkerInsertVulnerabilityScan(w)
        \/ WorkerStops(w)

SpecIngest == InitIngest /\ [][NextIngest]_vars

-----------------------------------------------------------------------------
(* Specification of the metrics: the tables are drawn in the initial state *)
(* and the metrics are calculated and generated from them.                 *)

InitMetrics ==
    /\ current_vulns = <<>>
    /\ previous_vulns = <<>>
    /\ result = NotCalled
    /\ store \in StoreUniverse
    /\ current_scan_session_id = NoSession
    /\ stats = InitStats
    /\ call = NoCall
    /\ steps = 0
    /\ now = Len(store.scan_sessions) + Len(store.vulnerability_scans) + 1
    /\ workers = <<>>
    /\ pending = NoArguments

\* One call of MTTRCalculator.calculate_overall_mttr
CalculateOverallMttr(db) ==
    /\ steps < MaxMetricsRuns
    /\ call' = [op |-> "calculate_overall_mttr", arg |-> db, ret |-> calculate_overall_mttr(store, db)]
    /\ steps' = steps + 1
    /\ UNCHANGED <<pending, workers>>
    /\ UNCHANGED <<current_vulns, previous_vulns, result, store, current_scan_session_id, stats, now>>

\* One call of loader.generate_metrics.  call.before is the store as it was
\* when the call was made.
GenerateMetrics(db) ==
    /\ steps < MaxMetricsRuns
    /\ LET r == generate_metrics(store, db)
       IN  /\ store' = r.store
           /\ call' = [op |-> "generate_metrics", arg |-> db, ret |-> r.ok,
                       mttr_overall |-> r.mttr_overall, metrics |-> r.metrics, before |-> store]
    /\ steps' = steps + 1
    /\ UNCHANGED <<pending, workers>>
    /\ UNCHANGED <<current_vulns, previous_vulns, result, current_scan_session_id, stats, now>>

NextMetrics ==
    \/ \E db \in DatabaseVariants : CalculateOverallMttr(db)
    \/ \E db \in DatabaseVariants \cup {"no_snapshots_table"} : GenerateMetrics(db)

SpecMetrics == InitMetrics /\ [][NextMetrics]_vars

-----------------------------------------------------------------------------
(* Specification of the loader and the pipeline *)

Init ==
    /\ current_vulns = <<>>
    /\ previous_vulns = <<>>
    /\ result = NotCalled
    /\ store = EmptyStore
    /\ current_scan_session_id = NoSession
    /\ stats = InitStats
    /\ call = NoCall
    /\ steps = 0
    /\ now = 1
    /\ workers = <<>>
    /\ pending = NoArguments

CreateScanSession(path, scan_date) ==
    /\ steps < MaxOps
    /\ LET r == create_scan_session(store, path, scan_date, now)
       IN  /\ store' = r.store
           /\ now' = r.now
           /\ current_scan_session_id' = r.id
           /\ call' = [op |-> "create_scan_session", arg |-> path, scan_date |-> scan_date,
                       ret |-> r.id]
    /\ steps' = steps + 1
    /\ UNCHANGED <<pending, workers>>
    /\ UNCHANGED <<current_vulns, previous_vulns, result, stats>>

LoadAssets(assets) ==
    /\ steps < MaxOps
    /\ LET r == load_assets(store, current_scan_session_id, assets, now)
       IN  /\ store' = r.store
           /\ call' = [op |-> "load_assets", arg |-> assets,
                       ret |-> [processed_count |-> r.processed_count],
                       store_calls |-> r.store_calls]
    /\ steps' = steps + 1
    /\ UNCHANGED <<pending, workers>>
    /\ UNCHANGED <<current_vulns, previous_vulns, result, current_scan_session_id, stats, now>>

LoadVulnerabilities(vulnerabilities) ==
    /\ steps < MaxOps
    /\ LET r == load_vulnerabilities(store, current_scan_session_id, vulnerabilities, now)
       IN  /\ store' = r.store
           /\ now' = r.now
           /\ call' = [op |-> "load_vulnerabilities", arg |-> vulnerabilities,
                       ret |-> [processed_count |-> r.processed_count],
                       inserted |-> r.inserted]
    /\ steps' = steps + 1
    /\ UNCHANGED <<pending, workers>>
    /\ UNCHANGED <<current_vulns, previous_vulns, result, current_scan_session_id, stats>>

\* One call of loader.upsert_asset.  call.before is the assets table as it
\* was when the call was made.
UpsertAsset(asset_data) ==
    /\ steps < MaxOps
    /\ LET r == upsert_asset(store, current_scan_session_id, asset_data, now)
       IN  /\ store' = r.store
           /\ call' = [op |-> "upsert_asset", arg |-> asset_data, raised |-> r.raised,
                       error |-> r.error, ret |-> r.id, store_calls |-> r.store_calls,
                       before |-> store.assets]
    /\ steps' = steps + 1
    /\ UNCHANGED <<pending, workers>>
    /\ UNCHANGED <<current_vulns, previous_vulns, result, current_scan_session_id, stats, now>>

\* One call of loader.upsert_vulnerability_definition.  call.before is the
\* vulnerability_definitions table as it was when the call was made.
UpsertVulnerabilityDefinition(vuln_data) ==
    /\ steps < MaxOps
    /\ LET r == upsert_vulnerability_definition(store, vuln_data)
       IN  /\ store' = r.store
           /\ call' = [op |-> "upsert_vulnerability_definition", arg |-> vuln_data,
                       raised |-> r.raised, error |-> r.error, ret |-> r.id,
                       before |-> store.vulnerability_definitions]
    /\ steps' = steps + 1
    /\ UNCHANGED <<pending, workers>>
    /\ UNCHANGED <<current_vulns, previous_vulns, result, current_scan_session_id, stats, now>>

\* One call of loader.update_scan_session_stats: without a current session
\* it returns at once (lines 96-98), otherwise it updates the totals of the
\* session's row; it returns None and raises nothing (lines 116-117).
UpdateScanSessionStats(total_hosts, total_vulnerabilities) ==
    /\ steps < MaxOps
    /\ store' = update_scan_session_stats(store, current_scan_session_id, total_hosts,
                                          total_vulnerabilities)
    /\ call' = [op |-> "update_scan_session_stats",
                arg |-> <<total_hosts, total_vulnerabilities>>, ret |-> None,
                before |-> store.scan_sessions]
    /\ steps' = steps + 1
    /\ UNCHANGED <<current_vulns, previous_vulns, result, current_scan_session_id, stats, now,
                   pending, workers>>

NextUpsert ==
    \/ \E asset_data \in ObservedHostUniverse : UpsertAsset(asset_data)
    \/ \E assets \in SeqsUpTo(AssetUniverse, MaxAssetBatch) : LoadAssets(assets)
    \/ \E vuln_data \in DefinitionUniverse : UpsertVulnerabilityDefinition(vuln_data)

SpecUpsert == Init /\ [][NextUpsert]_vars

\* The identity store over the scans: hosts are observed without a scan
\* session, within one scan and in one scan after another.
NextIdentity ==
    \/ \E path \in {"v1.nessus", "two.nessus"} : CreateScanSession(path, <<>>)
    \/ \E asset_data \in ObservedHostUniverse : UpsertAsset(asset_data)

SpecIdentity == Init /\ [][NextIdentity]_vars

NextLoader ==
    \/ \E path \in {"v1.nessus"} : CreateScanSession(path, <<>>)
    \/ \E assets \in SeqsUpTo(AssetUniverse, MaxAssetBatch) : LoadAssets(assets)
    \/ \E vulnerabilities \in SeqsUpTo(VulnUniverse, MaxVulnBatch) : LoadVulnerabilities(vulnerabilities)
    \/ \E total_hosts \in 0..1, total_vulnerabilities \in 0..1 :
          UpdateScanSessionStats(total_hosts, total_vulnerabilities)

SpecLoader == Init /\ [][NextLoader]_vars

ProcessNessusFile(path, generate_metrics_flag, db) ==
    /\ steps < MaxScans
    /\ LET r == process_nessus_file(store, current_scan_session_id, stats, path,
                                    generate_metrics_flag, now, db)
       IN  /\ store' = r.store
           /\ now' = r.now
           /\ current_scan_session_id' = r.sid
           /\ stats' = r.stats
           /\ current_vulns' = r.current
           /\ previous_vulns' = r.previous
           /\ result' = r.resolver
           /\ call' = [op |-> "process_nessus_file", arg |-> path, raised |-> r.raised,
                       error |-> r.error, ret |-> r.file_stats, loaded |-> r.loaded]
    /\ steps' = steps + 1
    /\ UNCHANGED <<pending, workers>>

NextPipeline ==
    \* The paths the pipeline is run on: the files of the working directory
    \* and a path that does not exist.
    \E path \in (DOMAIN Disk \ {"scans/v1.nessus"}) \cup {"missing.nessus"},
       generate_metrics_flag \in BOOLEAN, db \in DatabaseVariants :
        ProcessNessusFile(path, generate_metrics_flag, db)

SpecPipeline == Init /\ [][NextPipeline]_vars

ProcessDirectory(directory, generate_metrics_flag, db) ==
    /\ steps < MaxDirectoryRuns
    /\ LET r == process_directory(store, current_scan_session_id, stats, directory,
                                  generate_metrics_flag, now, db)
       IN  /\ store' = r.run.store
           /\ now' = r.run.now
           /\ current_scan_session_id' = r.run.sid
           /\ stats' = r.run.stats
           /\ current_vulns' = r.run.current
           /\ previous_vulns' = r.run.previous
           /\ result' = r.run.resolver
           /\ call' = [op |-> "process_directory", arg |-> directory,
                       generate_metrics |-> generate_metrics_flag, raised |-> r.raised,
                       error |-> r.error, ret |-> r.summary, calls |-> r.run.calls,
                       snapshots_before |-> Len(store.metrics_snapshots)]
    /\ steps' = steps + 1
    /\ UNCHANGED <<pending, workers>>

\* The directories process_directory is called on: one that does not exist
\* and those that hold up to MaxFiles report files, in the order glob
\* lists them.
NextDirectory ==
    \E directory \in {[exists |-> FALSE, nessus_files |-> <<>>]}
                      \cup {[exists |-> TRUE, nessus_files |-> files] :
                               files \in {f \in SeqsUpTo(DOMAIN Disk \ {"scans/v1.nessus"}, MaxFiles) :
                                             \A i, j \in 1..Len(f) : f[i] = f[j] => i = j}},
       generate_metrics_flag \in BOOLEAN, db \in DatabaseVariants :
        ProcessDirectory(directory, generate_metrics_flag, db)

SpecDirectory == Init /\ [][NextDirectory]_vars

CreateBusinessGroup(name, parent_id, reply) ==
    /\ Len(store.business_groups) < MaxGroups
    /\ LET r == create_business_group(store, name, parent_id, reply)
       IN  /\ store' = r.store
           /\ call' = [op |-> "create_business_group", name |-> name, parent_id |-> parent_id,
                       raised |-> r.raised, error |-> r.error, ret |-> r.id,
                       before |-> store.business_groups]
    /\ UNCHANGED <<current_vulns, previous_vulns, result, current_scan_session_id, stats, steps,
                   now, pending, workers>>

\* One call of context_manager.create_default_business_groups.
CreateDefaultBusinessGroups(failing) ==
    /\ Len(store.business_groups) < MaxGroups
    /\ LET r == create_default_business_groups(store, failing)
       IN  /\ store' = r.store
           /\ call' = [op |-> "create_default_business_groups", failing |-> failing,
                       raised |-> r.raised, before |-> store.business_groups]
    /\ UNCHANGED <<current_vulns, previous_vulns, result, current_scan_session_id, stats, steps,
                   now, pending, workers>>

\* One call of loader.load_with_business_context.
LoadWithBusinessContext(assets, vulnerabilities, business_rules, apply_dynamic_tags, tag_tables, reply) ==
    /\ steps < MaxOps
    /\ LET r == load_with_business_context(store, current_scan_session_id, assets, vulnerabilities,
                                           business_rules, apply_dynamic_tags, tag_tables, reply,
                                           now)
       IN  /\ store' = r.store
           /\ now' = r.now
           /\ call' = [op |-> "load_with_business_context", arg |-> business_rules,
                       raised |-> r.raised, error |-> r.error, ret |-> r.ret,
                       before |-> store.business_groups]
    /\ steps' = steps + 1
    /\ UNCHANGED <<current_vulns, previous_vulns, result, current_scan_session_id, stats, pending,
                   workers>>

\* The parent ids a caller passes: none, the empty string, an id no group
\* has and the ids of the groups that can exist.  The default groups are
\* created with every insert stored or with one of them returning no data.
NextGroups ==
    \/ \E name \in {"IT", "Ops"},
          parent_id \in {None, "", "unknown"} \cup {GroupId(n) : n \in 1..MaxGroups},
          reply \in {"row", "no_data"} :
           CreateBusinessGroup(name, parent_id, reply)
    \/ \E failing \in {0, 1, 5} : CreateDefaultBusinessGroups(failing)

SpecGroups == Init /\ [][NextGroups]_vars

\* Hosts of which two were seen at one address (the address passed from
\* Web1 to Web2 between two scans), and a finding on each.
SharedAddressHosts ==
    {[Asset_Name |-> "Web1", Asset_IP |-> "10.0.0.1", Type |-> "Host"],
     [Asset_Name |-> "Web2", Asset_IP |-> "10.0.0.1", Type |-> "Host"],
     [Asset_Name |-> "db1", Asset_IP |-> "10.0.0.2", Type |-> "Host"]}

SharedAddressFindings ==
    {[Asset_Name |-> h.Asset_Name, IP |-> h.Asset_IP, Plugin_ID |-> "V1", Severity |-> "High",
      Risk |-> "High", Port |-> "80"] : h \in SharedAddressHosts}

NextAttach ==
    \/ \E path \in {"v1.nessus", "two.nessus"} : CreateScanSession(path, <<>>)
    \/ \E assets \in SeqsUpTo(SharedAddressHosts, MaxAssetBatch) : LoadAssets(assets)
    \/ \E vulnerabilities \in SeqsUpTo(SharedAddressFindings, MaxVulnBatch) :
          LoadVulnerabilities(vulnerabilities)

SpecAttach == Init /\ [][NextAttach]_vars

\* create_scan_session when the insert into scan_sessions raises or returns
\* no data: the exception is logged and raised again (lines 86-91), the
\* assignment of line 83 is not reached.
CreateScanSessionFails(path) ==
    /\ steps < MaxOps
    /\ call' = [op |-> "create_scan_session", arg |-> path, raised |-> TRUE,
                before |-> current_scan_session_id]
    /\ steps' = steps + 1
    /\ UNCHANGED <<current_vulns, previous_vulns, result, store, current_scan_session_id, stats,
                   now, pending, workers>>

\* One call of loader.insert_vulnerability_scan.  call.before is the
\* findings table as it was when the call was made.
InsertVulnerabilityScan(asset_id, vulnerability_id, scan_data) ==
    /\ steps < MaxOps
    /\ LET r == insert_vulnerability_scan(store, current_scan_session_id, asset_id,
                                          vulnerability_id, scan_data, now)
       IN  /\ store' = r.store
           /\ now' = r.now
           /\ call' = [op |-> "insert_vulnerability_scan", arg |-> scan_data,
                       raised |-> r.raised, ret |-> r.id, before |-> store.vulnerability_scans]
    /\ steps' = steps + 1
    /\ UNCHANGED <<current_vulns, previous_vulns, result, current_scan_session_id, stats, pending,
                   workers>>

NextSession ==
    \/ \E path \in {None, "scans/v1.nessus", "missing.nessus"}, scan_date \in {<<>>, <<1>>} :
          CreateScanSession(path, scan_date)
    \/ \E path \in {"v1.nessus", "two.nessus"} : CreateScanSessionFails(path)
    \/ \E asset_id \in {1, 2}, scan_data \in SharedAddressFindings :
          InsertVulnerabilityScan(asset_id, 1, scan_data)
    \/ \E total_hosts \in 0..1, total_vulnerabilities \in 0..1 :
          UpdateScanSessionStats(total_hosts, total_vulnerabilities)
    \* load_with_business_context on a host with a tag and a finding on it,
    \* without rules and with rules that name a group, a group under it and a
    \* group under a parent no group is named as
    \/ \E assets \in {<<>>, <<[Asset_Name |-> "Web1", Asset_IP |-> "10.0.0.1", Type |-> "Host",
                                tags |-> <<"qa-environment">>]>>},
          vulnerabilities \in {<<>>, <<[Asset_Name |-> "Web1", IP |-> "10.0.0.1",
                                        Plugin_ID |-> "V1", Severity |-> "High", Risk |-> "High",
                                        Port |-> "80"]>>},
          business_rules \in {<<>>,
                              [business_groups |-> <<[name |-> "IT"],
                                                     [name |-> "Ops", parent |-> "IT"]>>],
                              [business_groups |-> <<[name |-> "Ops", parent |-> "Sales"]>>]},
          apply_dynamic_tags \in BOOLEAN, tag_tables \in {"ok", "unavailable"},
          reply \in {"row", "no_data"} :
           LoadWithBusinessContext(assets, vulnerabilities, business_rules, apply_dynamic_tags,
                                   tag_tables, reply)

SpecSession == Init /\ [][NextSession]_vars

Next ==
    \/ NextLoader
    \/ NextPipeline
    \/ NextUpsert
    \/ NextDirectory
    \/ NextGroups
    \/ NextAttach
    \/ NextSession

Spec == Init /\ [][Next]_vars

-----------------------------------------------------------------------------
(* Properties of the diff engine, checked under SpecResolver.  Cur0 and    *)
(* Prev0 are the argument lists as they were when the call was made, Out   *)
(* is the returned list.                                                   *)

Statuses == {"open", "remediated", "reopened"}

Returned == result.state = "returned"

Raised == result.state = "raised"

Cur0 == call.arg[1]

Prev0 == call.arg[2]

Out == result.resolved

KeysOf(vs) == {KeyOf(vs[i]) : i \in 1..Len(vs)}

Occurrences(vs, k) == Cardinality({i \in 1..Len(vs) : KeyOf(vs[i]) = k})

\* The record that stands for key k in the previous list: its last occurrence.
PreviousRecord(k) ==
    Prev0[CHOOSE j \in 1..Len(Prev0) :
            KeyOf(Prev0[j]) = k /\ \A h \in (j + 1)..Len(Prev0) : KeyOf(Prev0[h]) # k]

PreviouslyRemediated(k) ==
    k \in KeysOf(Prev0) /\ Get(PreviousRecord(k), "remediation_status") = "remediated"

\* C2: every current-scan finding whose key has no previous record, or whose
\* previous record is not marked remediated, is returned with status open
\* (so a key that was open before stays open and is not reopened).
C2_OpenUnlessRemediatedBefore ==
    Returned =>
        \A i \in 1..Len(Cur0) :
            ~PreviouslyRemediated(KeyOf(Cur0[i]))
                => Out[i] = SetField(Cur0[i], "remediation_status", "open")

C2_Witness ==
    /\ Returned
    /\ \E i \in 1..Len(Cur0) :
          /\ KeyOf(Cur0[i]) \in KeysOf(Prev0)
          /\ Get(PreviousRecord(KeyOf(Cur0[i])), "remediation_status") = "open"
          /\ Out[i]["remediation_status"] = "open"

\* C3: every current-scan finding whose key has a previous record with
\* status remediated is returned with status reopened.
C3_ReopenedAfterRemediated ==
    Returned =>
        \A i \in 1..Len(Cur0) :
            PreviouslyRemediated(KeyOf(Cur0[i]))
                => Out[i] = SetField(Cur0[i], "remediation_status", "reopened")

C3_Witness ==
    /\ Returned
    /\ \E i \in 1..Len(Cur0) :
          PreviouslyRemediated(KeyOf(Cur0[i])) /\ Out[i]["remediation_status"] = "reopened"

\* C4: for every key of the previous set that is absent from the current
\* scan the output holds exactly one record, equal to the previous record in
\* every field except remediation_status, which is remediated.
C4_AbsentKeySynthesized ==
    Returned =>
        \A k \in KeysOf(Prev0) \ KeysOf(Cur0) :
            /\ Occurrences(Out, k) = 1
            /\ \E i \in (Len(Cur0) + 1)..Len(Out) :
                  Out[i] = SetField(PreviousRecord(k), "remediation_status", "remediated")

C4_Witness ==
    /\ Returned
    /\ Cur0 # <<>>
    /\ \E k \in KeysOf(Prev0) \ KeysOf(Cur0) :
          /\ Get(PreviousRecord(k), "remediation_status") = "open"
          /\ \E i \in 1..Len(Out) : KeyOf(Out[i]) = k /\ Out[i]["remediation_status"] = "remediated"

\* C5 as claimed: every key of either list occurs exactly once in the
\* output, with one of the three statuses, also when a list repeats a key.
C5_Original ==
    Returned =>
        \A k \in KeysOf(Cur0) \cup KeysOf(Prev0) :
            /\ Occurrences(Out, k) = 1
            /\ \A i \in 1..Len(Out) : KeyOf(Out[i]) = k => Out[i]["remediation_status"] \in Statuses

\* C5 amended: every key of either list occurs in the output and every
\* output record has one of the three statuses; a key of the current list
\* occurs once per occurrence in the current list, a key only in the
\* previous list occurs exactly once however often the previous list
\* repeats it.
C5_DiffCompleteness ==
    Returned =>
        /\ KeysOf(Out) = KeysOf(Cur0) \cup KeysOf(Prev0)
        /\ \A i \in 1..Len(Out) :
              Has(Out[i], "remediation_status") /\ Out[i]["remediation_status"] \in Statuses
        /\ \A k \in KeysOf(Cur0) : Occurrences(Out, k) = Occurrences(Cur0, k)
        /\ \A k \in KeysOf(Prev0) \ KeysOf(Cur0) : Occurrences(Out, k) = 1

C5_Witness ==
    /\ Returned
    /\ \E k \in KeysOf(Cur0) : Occurrences(Cur0, k) = 2 /\ Occurrences(Out, k) = 2
    /\ \E k \in KeysOf(Prev0) \ KeysOf(Cur0) : Occurrences(Prev0, k) = 2 /\ Occurrences(Out, k) = 1

\* C6 as claimed: a key whose previous record is remediated and that is
\* absent from the current scan gets no record in the output (and so never
\* one with status open).
C6_Original ==
    Returned =>
        \A k \in KeysOf(Prev0) \ KeysOf(Cur0) :
            PreviouslyRemediated(k) => Occurrences(Out, k) = 0

\* C8 as claimed: the call leaves every dict of both argument lists as it was.
C8_Original ==
    (Returned \/ Raised) => current_vulns = Cur0 /\ previous_vulns = Prev0

\* C8 amended: the call leaves every dict of previous_vulns as it was, and
\* changes a dict of current_vulns only by writing its remediation_status
\* (the status of the returned record); a call that raises changes nothing.
C8_OnlyCurrentStatusWritten ==
    /\ (Returned \/ Raised) => previous_vulns = Prev0
    /\ Raised => current_vulns = Cur0
    /\ Returned =>
          /\ Len(current_vulns) = Len(Cur0)
          /\ \A i \in 1..Len(Cur0) :
                /\ DOMAIN current_vulns[i] = DOMAIN Cur0[i] \cup {"remediation_status"}
                /\ \A f \in DOMAIN Cur0[i] \ {"remediation_status"} : current_vulns[i][f] = Cur0[i][f]
                /\ current_vulns[i]["remediation_status"] = Out[i]["remediation_status"]

C8_Witness ==
    /\ Returned
    /\ \E i \in 1..Len(Cur0) : current_vulns[i] # Cur0[i]
    /\ \E k \in KeysOf(Prev0) \ KeysOf(Cur0) : Get(PreviousRecord(k), "remediation_status") # "remediated"

\* C9: when a dict of either argument list lacks its asset key or its
\* vulnerability key the call ends in an error and returns no list.
C9_MalformedKeyRaises ==
    (Returned \/ Raised) =>
        ((\E i \in 1..Len(Cur0) : ~HasKey(Cur0[i])) \/ (\E j \in 1..Len(Prev0) : ~HasKey(Prev0[j]))
            => Raised /\ result.error[1] = "KeyError" /\ Out = <<>>)

C9_Witness ==
    /\ Raised
    /\ \E i \in 1..Len(Cur0) : ~HasKey(Cur0[i])
    /\ Prev0 # <<>>
    /\ \A j \in 1..Len(Prev0) : HasKey(Prev0[j])

-----------------------------------------------------------------------------
(* Properties of the pipeline, checked under SpecPipeline *)

\* The (host address, plugin id) keys a report file holds findings for.
FoundKeys(path) ==
    LET raw == extract_vulnerabilities(Disk[path])
    IN  {<<raw[i]["IP"], raw[i]["Plugin_ID"]>> : i \in 1..Len(raw)}

\* The stored findings of key k with the given remediation status.
StoredFindings(k, status) ==
    {i \in 1..Len(store.vulnerability_scans) :
        LET row == store.vulnerability_scans[i]
        IN  /\ row.remediation_status = status
            /\ \E a \in 1..Len(store.assets) :
                  store.assets[a].id = row.asset_id /\ store.assets[a].current_ip_address = k[1]
            /\ \E d \in 1..Len(store.vulnerability_definitions) :
                  /\ store.vulnerability_definitions[d].id = row.vulnerability_id
                  /\ store.vulnerability_definitions[d].plugin_id = k[2]}

\* C1 as claimed: once scan N+1 is ingested, a key found in scan N and
\* absent from scan N+1 has a remediated record in the store, and the
\* previous set handed to the resolver held the findings of scan N.
C1_Original ==
    \A n \in 1..(Len(store.scan_sessions) - 1) :
        \A k \in FoundKeys(store.scan_sessions[n].scan_file_name)
                    \ FoundKeys(store.scan_sessions[n + 1].scan_file_name) :
            StoredFindings(k, "remediated") # {}

-----------------------------------------------------------------------------
(* Properties of the loader, checked under SpecLoader *)

\* C7 as claimed: every finding row the loader has inserted carries the
\* remediation_status of the record it was loaded from.
C7_Original ==
    call.op = "load_vulnerabilities" =>
        \A e \in 1..Len(call.inserted) :
            LET src == call.arg[call.inserted[e].pos]
                row == store.vulnerability_scans[call.inserted[e].id]
            IN  /\ row.remediation_status \in Statuses
                /\ Has(src, "remediation_status") => row.remediation_status = src["remediation_status"]

BatchCall == call.op \in {"load_assets", "load_vulnerabilities"}

\* C10 as claimed: the records of a batch that were not loaded are returned
\* in an error list next to the successful results.
C10_Original ==
    BatchCall =>
        (call.ret.processed_count < Len(call.arg)
            => /\ Has(call.ret, "errors")
               /\ Len(call.ret["errors"]) = Len(call.arg) - call.ret.processed_count)

\* An asset record upsert_asset accepts.
AssetLoadable(asset) == GetOr(asset, "Asset_IP", "") # ""

\* A finding record load_vulnerabilities inserts a row for.
VulnLoadable(vuln) ==
    /\ Truthy(GetOr(vuln, "Plugin_ID", Get(vuln, "plugin_id")))
    /\ current_scan_session_id # NoSession
    /\ \E a \in 1..Len(store.assets) :
          store.assets[a].current_ip_address = GetOr(vuln, "IP", GetOr(vuln, "Asset_IP", ""))
    /\ GetOr(vuln, "IP", GetOr(vuln, "Asset_IP", "")) # ""

\* C10 amended: a record that fails or is skipped does not stop the rest of
\* the batch - every loadable record of the batch is loaded, wherever it
\* stands - and the batch returns only the number of records loaded; the
\* records not loaded are not returned.
C10_BatchContinues ==
    /\ call.op = "load_assets" =>
          /\ DOMAIN call.ret = {"processed_count"}
          /\ call.ret.processed_count = Cardinality({i \in 1..Len(call.arg) : AssetLoadable(call.arg[i])})
          /\ \A i \in 1..Len(call.arg) :
                AssetLoadable(call.arg[i]) =>
                    \E a \in 1..Len(store.assets) :
                        store.assets[a].current_ip_address = call.arg[i]["Asset_IP"]
    /\ call.op = "load_vulnerabilities" =>
          /\ DOMAIN call.ret = {"processed_count"}
          /\ call.ret.processed_count = Cardinality({i \in 1..Len(call.arg) : VulnLoadable(call.arg[i])})
          /\ \A i \in 1..Len(call.arg) :
                VulnLoadable(call.arg[i]) <=>
                    \E e \in 1..Len(call.inserted) :
                        /\ call.inserted[e].pos = i
                        /\ call.inserted[e].id \in 1..Len(store.vulnerability_scans)

C10_Witness ==
    /\ call.op = "load_vulnerabilities"
    /\ Len(call.arg) = 2
    /\ ~Truthy(GetOr(call.arg[1], "Plugin_ID", Get(call.arg[1], "plugin_id")))
    /\ VulnLoadable(call.arg[2])
    /\ call.ret.processed_count = 1
    /\ Len(store.vulnerability_scans) = 1

\* The lineage of a stored finding: its (asset, vulnerability definition) pair.
LineageOf(row) == <<row.asset_id, row.vulnerability_id>>

\* C11 as claimed: whenever a pair that already has a stored finding is
\* observed again, the first_seen stored with the new observation is not
\* later than the first_seen given at the first sighting, and its last_seen
\* is later than the last_seen stored before.
C11_Original ==
    \A i \in 1..Len(store.vulnerability_scans) :
        \A j \in (i + 1)..Len(store.vulnerability_scans) :
            LineageOf(store.vulnerability_scans[i]) = LineageOf(store.vulnerability_scans[j])
                => /\ store.vulnerability_scans[j].first_seen <= store.vulnerability_scans[i].first_seen
                   /\ store.vulnerability_scans[j].last_seen > store.vulnerability_scans[i].last_seen

-----------------------------------------------------------------------------
(* Properties of the pure functions, checked under SpecFunctions *)

\* An optional attribute is present when it is neither None nor empty.
Present(s) == s \notin {None, ""}

\* The lower-case forms of the host names, MAC addresses and OS
\* descriptors of the model, the latter with every character that is not a
\* letter or a digit removed.
Lowercased ==
    ("Web1" :> "web1") @@ ("Web2" :> "web2") @@ ("db1" :> "db1") @@
    ("AA:BB" :> "aa:bb") @@ ("aa:bb" :> "aa:bb")

AlnumLowercased == ("Linux 5.4" :> "linux54") @@ ("linux54" :> "linux54")

\* C12: the fingerprint is the key of the first rule of the cascade that
\* matches - mac:<lower-cased MAC>, else ip_os:<IP>:<OS, alphanumerics only,
\* lower-cased>, else ip_host:<IP>:<lower-cased hostname>, else ip:<IP> -
\* and is determined by the four arguments alone; a host with both a MAC
\* address and a hostname gets the mac: form.
C12_FingerprintCascade ==
    call.op = "_generate_asset_fingerprint" =>
        LET hostname == call.arg[1]
            ip_address == call.arg[2]
            mac_address == call.arg[3]
            os_info == call.arg[4]
        IN  /\ Present(mac_address) => call.ret = <<"mac", Lowercased[mac_address]>>
            /\ ~Present(mac_address) /\ Present(os_info)
                  => call.ret = <<"ip_os", ip_address, AlnumLowercased[os_info]>>
            /\ ~Present(mac_address) /\ ~Present(os_info) /\ Present(hostname)
                  => call.ret = <<"ip_host", ip_address, Lowercased[hostname]>>
            /\ ~Present(mac_address) /\ ~Present(os_info) /\ ~Present(hostname)
                  => call.ret = <<"ip", ip_address>>

C12_Witness ==
    /\ call.op = "_generate_asset_fingerprint"
    /\ call.arg = <<"Web1", "10.0.0.1", "AA:BB", "Linux 5.4">>
    /\ call.ret = <<"mac", "aa:bb">>

\* The number a severity code stands for; -1 for a code that is no number.
CodeOf(v) ==
    IF v.type = "int" THEN v.int
    ELSE CASE v.str = "0" -> 0
           [] v.str = "1" -> 1
           [] v.str = "2" -> 2
           [] v.str = "3" -> 3
           [] v.str = "4" -> 4
           [] v.str = "5" -> 5
           [] OTHER -> -1

CanonicalRisk == <<"None", "Low", "Medium", "High", "Critical">>

\* C16 as claimed: both mappings send the codes 0, 1, 2, 3, 4, given as
\* number or as string, to None, Low, Medium, High, Critical and every other
\* code to Unknown.
C16_Original ==
    call.op \in {"_map_severity_to_risk", "severity_mapping"} =>
        call.ret = IF CodeOf(call.arg) \in 0..4 THEN CanonicalRisk[CodeOf(call.arg) + 1]
                   ELSE "Unknown"

-----------------------------------------------------------------------------
(* Properties of the identity stores, checked under SpecIdentity (C13) and *)
(* SpecUpsert                                                              *)

\* The fingerprint of an observed host that has a MAC address or an OS descriptor.
HardwareKey(asset_data) ==
    IF Present(Get(asset_data, "MAC_Address"))
    THEN <<"mac", Lowercased[asset_data["MAC_Address"]]>>
    ELSE <<"ip_os", asset_data["Asset_IP"], AlnumLowercased[asset_data["Operating_System"]]>>

\* The rows of a table that have the given value in the given field.
RowsWith(table, field, value) == {i \in 1..Len(table) : table[i][field] = value}

\* An identity as stored before the call whose last observation agrees
\* with the call's host in the way the claim names and differs from it in
\* the hostname: the same address and MAC address, or the same address and
\* OS descriptor.  without_mac leaves out the pairs of which one has a MAC
\* address.
SameHardware(row, asset_data, without_mac) ==
    /\ row.current_ip_address = asset_data["Asset_IP"]
    /\ row.current_hostname # Get(asset_data, "Asset_Name")
    /\ \/ /\ Present(Get(asset_data, "MAC_Address"))
          /\ row.fingerprint = <<"mac", Lowercased[asset_data["MAC_Address"]]>>
       \/ /\ Present(Get(asset_data, "Operating_System"))
          /\ row.current_os = asset_data["Operating_System"]
          /\ without_mac => /\ ~Present(Get(asset_data, "MAC_Address"))
                            /\ row.fingerprint[1] # "mac"

NoAddress(asset_data) == ~Present(Get(asset_data, "Asset_IP"))

\* C14: upsert_asset ends in an error for a host without an address and
\* makes no request to the store; load_assets skips such a host, goes on
\* with the hosts after it and returns the number of hosts that have an
\* address.
C14_NoAddressNoStoreCall ==
    /\ (call.op = "upsert_asset" /\ NoAddress(call.arg))
          => /\ call.raised
             /\ call.error = "ValueError"
             /\ call.store_calls = 0
             /\ store.assets = call.before
    /\ call.op = "load_assets"
          => LET with_address == {i \in 1..Len(call.arg) : ~NoAddress(call.arg[i])}
             IN  /\ call.ret.processed_count = Cardinality(with_address)
                 /\ call.store_calls = Cardinality(with_address)
                 /\ \A i \in with_address :
                       RowsWith(store.assets, "current_ip_address", call.arg[i]["Asset_IP"]) # {}

C14_Witness ==
    /\ call.op = "load_assets"
    /\ Len(call.arg) = 2
    /\ NoAddress(call.arg[1])
    /\ ~NoAddress(call.arg[2])
    /\ call.ret.processed_count = 1
    /\ Len(store.assets) = 1

\* The plugin id a finding carries under either spelling of the key.
PluginOf(vuln_data) == GetOr(vuln_data, "Plugin_ID", Get(vuln_data, "plugin_id"))

\* C15: the vulnerability_definitions table never holds two definitions
\* with the same plugin id; the first call for a plugin id adds its
\* definition and returns the new id, a later call returns the id stored
\* for the plugin id, adds no row and leaves the id and the plugin id of
\* every definition as they were.
C15_OneDefinitionPerPlugin ==
    /\ \A i, j \in 1..Len(store.vulnerability_definitions) :
          store.vulnerability_definitions[i].plugin_id = store.vulnerability_definitions[j].plugin_id
              => i = j
    /\ (call.op = "upsert_vulnerability_definition" /\ ~call.raised)
          => LET defs == store.vulnerability_definitions
                 earlier == RowsWith(call.before, "plugin_id", PluginOf(call.arg))
             IN  /\ \A i \in 1..Len(call.before) :
                       /\ defs[i].id = call.before[i].id
                       /\ defs[i].plugin_id = call.before[i].plugin_id
                       /\ i \notin earlier => defs[i] = call.before[i]
                 /\ earlier # {} => /\ Len(defs) = Len(call.before)
                                    /\ \A i \in earlier : call.before[i].id = call.ret
                 /\ earlier = {} => /\ Len(defs) = Len(call.before) + 1
                                    /\ defs[Len(defs)].plugin_id = PluginOf(call.arg)
                                    /\ defs[Len(defs)].id = call.ret
                                    /\ \A i \in 1..Len(call.before) : call.before[i].id # call.ret

C15_Witness ==
    /\ call.op = "upsert_vulnerability_definition"
    /\ ~call.raised
    /\ \E i \in RowsWith(call.before, "plugin_id", PluginOf(call.arg)) :
          /\ call.before[i].id = call.ret
          /\ store.vulnerability_definitions[i] # call.before[i]
    /\ Len(store.vulnerability_definitions) = 2

-----------------------------------------------------------------------------
(* Properties of the metrics *)

\* The findings of a store with the given remediation status.
FindingsWith(st, status) ==
    {i \in 1..Len(st.vulnerability_scans) : st.vulnerability_scans[i].remediation_status = status}

\* C17: when the store holds no remediated finding,
\* calculate_overall_mttr returns None and never a number.
C17_Original ==
    (call.op = "calculate_overall_mttr" /\ FindingsWith(store, "remediated") = {})
        => call.ret = PyNone

\* The findings newly opened: the open findings of a (host, vulnerability)
\* pair that has no earlier finding in the store.
NewlyOpened(st) ==
    {i \in FindingsWith(st, "open") :
        \A j \in 1..(i - 1) :
            \/ st.vulnerability_scans[j].asset_id # st.vulnerability_scans[i].asset_id
            \/ st.vulnerability_scans[j].vulnerability_id # st.vulnerability_scans[i].vulnerability_id}

\* C18: the remediation capacity calculate_remediation_capacity reports is
\* the number of findings remediated divided by the number of findings
\* newly opened, times 100, the period being the history the store holds.
\* The findings newly opened are counted either as the first open finding
\* of each pair or as every finding stored; the reported percentage is to
\* be the ratio under one of the two counts.
C18_Original ==
    (call.op = "generate_metrics" /\ NewlyOpened(call.before) # {})
        => LET remediated == Cardinality(FindingsWith(call.before, "remediated"))
           IN  call.metrics.remediation_capacity.dict.remediation_rate_percentage
                  \in {RoundedPercent(remediated, Cardinality(NewlyOpened(call.before))),
                       RoundedPercent(remediated, Len(call.before.vulnerability_scans))}

\* C19: a ratio whose denominator is zero, or that has no qualifying data,
\* is reported as None and never as zero: the remediation capacity without
\* findings, the capacity of a risk level without findings of the level,
\* the asset coverage without active assets and the daily remediation rate
\* with fewer than two scan sessions.
C19_Original ==
    call.op = "generate_metrics"
        => LET before == call.before
               metrics == call.metrics
           IN  /\ before.vulnerability_scans = <<>>
                     => metrics.remediation_capacity.dict.remediation_rate_percentage = PyNone
               /\ \A k \in 1..Len(RiskLevels) :
                     CountWhere(before.vulnerability_scans, [severity |-> RiskLevels[k]]) = 0
                         => metrics.remediation_capacity_by_risk.dict[RiskLevels[k]].dict
                               .remediation_rate_percentage = PyNone
               /\ CountWhere(before.assets, [is_active |-> TRUE]) = 0
                     => metrics.asset_coverage.dict.coverage_percentage = PyNone
               /\ Len(before.scan_sessions) < 2
                     => metrics.daily_remediation.dict.average_daily_remediation = PyNone

\* The tables of the findings, the hosts, the scan sessions and the
\* definitions, and the tables derived from them.
RecordTables ==
    {"scan_sessions", "assets", "vulnerability_definitions", "vulnerability_scans", "business_groups"}

DerivedTables == {"metrics_snapshots", "metric_values", "mttr_history"}

\* C20: a run of generate_metrics leaves every finding, host, scan session
\* and definition as it was, and every row the derived tables held; it
\* only adds rows to the snapshots, the metric values and the MTTR history.
C20_MetricsOnlyInsertDerivedRows ==
    call.op = "generate_metrics"
        => /\ \A t \in RecordTables : store[t] = call.before[t]
           /\ \A t \in DerivedTables :
                 /\ Len(store[t]) >= Len(call.before[t])
                 /\ SubSeq(store[t], 1, Len(call.before[t])) = call.before[t]

C20_Witness ==
    /\ call.op = "generate_metrics"
    /\ call.ret
    /\ call.before.vulnerability_scans # <<>>
    /\ call.before.metrics_snapshots # <<>>
    /\ \A t \in DerivedTables : Len(store[t]) > Len(call.before[t])

-----------------------------------------------------------------------------
(* Properties of ingestions that run at the same time *)

ScopePlugins == {"V1", "V2"}

\* The content of the store without the ids the database hands out: the
\* fingerprints of the assets, the number of definitions of each plugin id
\* and the number of findings of each asset address and plugin id.
Content(st) ==
    LET AddressOf(id) == {a.current_ip_address : a \in {st.assets[i] : i \in
                              {j \in 1..Len(st.assets) : st.assets[j].id = id}}}
        PluginOf21(id) == {d.plugin_id : d \in {st.vulnerability_definitions[i] : i \in
                              {j \in 1..Len(st.vulnerability_definitions) :
                                   st.vulnerability_definitions[j].id = id}}}
    IN  [assets |-> {st.assets[i].fingerprint : i \in 1..Len(st.assets)},
         asset_rows |-> Len(st.assets),
         definitions |-> [p \in ScopePlugins |->
                            Cardinality({i \in 1..Len(st.vulnerability_definitions) :
                                            st.vulnerability_definitions[i].plugin_id = p})],
         findings |-> [w \in Workers |-> [p \in ScopePlugins |->
                          Cardinality({i \in 1..Len(st.vulnerability_scans) :
                              /\ AddressOf(st.vulnerability_scans[i].asset_id)
                                     = {ScopeAsset(w).Asset_IP}
                              /\ PluginOf21(st.vulnerability_scans[i].vulnerability_id) = {p}})]]]

\* One ingestion run alone from its first request to its last.
Ingest(acc, w) ==
    LET session == create_scan_session(acc.store, workers[w].scan_file_path, <<>>, acc.now)
        assets == load_assets(session.store, session.id, workers[w].assets, session.now)
        loaded == load_vulnerabilities(assets.store, session.id, workers[w].vulnerabilities,
                                       session.now)
    IN  [store |-> loaded.store, now |-> loaded.now]

\* The contents the two ingestions leave when one runs after the other.
SerialContents ==
    {Content(Ingest(Ingest([store |-> EmptyStore, now |-> 1], first), second).store) :
        <<first, second>> \in {<<1, 2>>, <<2, 1>>}}

AllDone == workers # <<>> /\ \A w \in Workers : workers[w].pc = "done"

\* C21: when two ingestions of different hosts have run at the same time to
\* their ends, the store holds the assets, definitions and findings it
\* holds after the two ingestions run one after the other.
C21_Original == AllDone => Content(store) \in SerialContents

\* The findings stored for the scan session of a worker.
FindingsOfWorker(w) ==
    {i \in 1..Len(store.vulnerability_scans) :
        store.vulnerability_scans[i].scan_session_id = workers[w].current_scan_session_id}

\* C22: an ingestion that stopped before its end has left none of the
\* findings of its scan in the store.
C22_Original ==
    workers # <<>> =>
        \A w \in Workers : workers[w].pc = "stopped" => FindingsOfWorker(w) = {}

-----------------------------------------------------------------------------
(* Properties of process_directory, checked under SpecDirectory *)

DirectoryReturned == call.op = "process_directory" /\ ~call.raised

\* The calls of process_nessus_file that returned without raising.
ReturnedCalls == {i \in 1..Len(call.calls) : ~call.calls[i].raised}

\* C23: process_directory calls process_nessus_file on every file of the
\* directory, in order, also after a file failed; total_files is
\* successful_files + failed_files, and successful_files is the number of
\* calls that returned without raising.
C23_EveryFileProcessedAndCounted ==
    DirectoryReturned =>
        /\ [i \in 1..Len(call.calls) |-> call.calls[i].path] = call.arg.nessus_files
        /\ call.ret.total_files = Len(call.arg.nessus_files)
        /\ call.ret.total_files = call.ret.successful_files + call.ret.failed_files
        /\ call.ret.successful_files = Cardinality(ReturnedCalls)

\* A directory of two files whose first file failed and whose second file
\* was processed.
C23_Witness ==
    /\ DirectoryReturned
    /\ Len(call.arg.nessus_files) = 2
    /\ call.calls[1].raised
    /\ ~call.calls[2].raised
    /\ call.ret.successful_files = 1
    /\ call.ret.failed_files = 1

\* The calls of process_nessus_file in which metrics were generated: those
\* made with generate_metrics that reached the metrics step.
MetricsRuns == {i \in 1..Len(call.calls) : call.calls[i].generate_metrics /\ ~call.calls[i].raised}

\* C26: process_directory with generate_metrics=True on a directory with
\* report files generates metrics exactly once, after the last file, also
\* when files fail.
C26_Original ==
    (DirectoryReturned /\ call.generate_metrics /\ call.arg.nessus_files # <<>>) =>
        /\ MetricsRuns = {Len(call.arg.nessus_files)}
        /\ Len(store.metrics_snapshots) = call.snapshots_before + 1

-----------------------------------------------------------------------------
(* Properties of process_nessus_file, checked under SpecPipeline *)

\* The counters of the pipeline's stats.
Counters(s) == <<s.files_processed, s.assets_loaded, s.vulnerabilities_loaded>>

\* C24: a call of process_nessus_file on a path that does not exist raises
\* FileNotFoundError, leaves the store, the current scan session and the
\* three counters as they were and appends one message to stats.errors; a
\* call that returns adds one to files_processed and the counts the loader
\* returned to assets_loaded and vulnerabilities_loaded.
C24_MissingFileLeavesNoTrace ==
    [][call'.op = "process_nessus_file" =>
          /\ call'.arg \notin DOMAIN Disk =>
                /\ call'.raised
                /\ call'.error = "FileNotFoundError"
                /\ store' = store
                /\ current_scan_session_id' = current_scan_session_id
                /\ Counters(stats') = Counters(stats)
                /\ Len(stats'.errors) = Len(stats.errors) + 1
          /\ ~call'.raised =>
                /\ call'.ret.success
                /\ Counters(stats') = <<stats.files_processed + 1,
                                        stats.assets_loaded + call'.loaded[1],
                                        stats.vulnerabilities_loaded + call'.loaded[2]>>
                /\ stats'.errors = stats.errors]_vars

\* A file was processed and its host loaded, then a path that does not
\* exist was refused.
C24_Witness ==
    /\ call.op = "process_nessus_file"
    /\ call.arg \notin DOMAIN Disk
    /\ call.raised
    /\ stats.files_processed = 1
    /\ stats.assets_loaded = 1
    /\ Len(store.scan_sessions) = 1
    /\ Len(stats.errors) = 1

-----------------------------------------------------------------------------
(* Properties of the business groups, checked under SpecGroups *)

Groups == {store.business_groups[i] : i \in 1..Len(store.business_groups)}

\* C25: every stored group created without a parent has depth 0 and path
\* /<name>/, every stored group created under a parent has the depth of
\* that parent plus one and the parent's path followed by <name>/, and a
\* call that names a parent id no group has raises and inserts nothing.
C25_GroupHierarchy ==
    /\ \A g \in Groups :
          IF ~Truthy(g.parent_id)
          THEN g.depth = 0 /\ g.path = "/" \o g.name \o "/"
          ELSE \E p \in Groups :
                  /\ p.id = g.parent_id
                  /\ g.depth = p.depth + 1
                  /\ g.path = p.path \o g.name \o "/"
    /\ (/\ call.op = "create_business_group"
        /\ Truthy(call.parent_id)
        /\ \A i \in 1..Len(call.before) : call.before[i].id # call.parent_id)
          => call.raised /\ store.business_groups = call.before

\* A group two levels under a root exists and a call naming an unknown
\* parent was refused.
C25_Witness ==
    /\ call.op = "create_business_group"
    /\ call.parent_id = "unknown"
    /\ call.raised
    /\ \E g \in Groups : g.depth = 1 /\ g.path = "/IT/Ops/" /\ g.parent_id = GroupId(1)

-----------------------------------------------------------------------------
(* Properties of the loader on hosts that share an address, checked under  *)
(* SpecAttach                                                              *)

\* The asset identities upsert_asset gives the host of a finding: the rows
\* with the fingerprint of the host's name and address.
IdentitiesOfHost(vuln) ==
    LET asset_jsonb == AssetJsonb([Asset_Name |-> vuln.Asset_Name, Asset_IP |-> vuln.IP])
        fp == _generate_asset_fingerprint(Get(asset_jsonb, "hostname"), asset_jsonb["ip_address"],
                                          Get(asset_jsonb, "mac_address"),
                                          Get(asset_jsonb, "operating_system"))
    IN  {a.id : a \in {store.assets[i] : i \in {j \in 1..Len(store.assets) :
                                                   store.assets[j].fingerprint = fp}}}

\* C27: every finding load_vulnerabilities inserted is attached to the
\* asset identity of the finding's own host, also when another identity
\* has the same current address.
C27_Original ==
    call.op = "load_vulnerabilities" =>
        \A k \in 1..Len(call.inserted) :
            \A id \in IdentitiesOfHost(call.arg[call.inserted[k].pos]) :
                store.vulnerability_scans[call.inserted[k].id].asset_id = id

-----------------------------------------------------------------------------
(* Properties of the result of generate_metrics, checked under SpecMetrics *)

\* C28: generate_metrics returns True only when its run added a row to
\* metrics_snapshots.
C28_Original ==
    (call.op = "generate_metrics" /\ call.ret) =>
        Len(store.metrics_snapshots) = Len(call.before.metrics_snapshots) + 1

\* C29: the remediated_vulnerabilities figure of
\* calculate_remediation_capacity is the number of findings whose
\* remediation_status is remediated, whatever the store holds; reopened
\* findings are not among them.
C29_Original ==
    call.op = "generate_metrics" =>
        call.metrics.remediation_capacity.dict.remediated_vulnerabilities
            = PyInt(Cardinality(FindingsWith(call.before, "remediated")))

-----------------------------------------------------------------------------
(* Properties of the current scan session, checked under SpecSession *)

\* C30: a call of insert_vulnerability_scan made before any scan session
\* was created raises and leaves the findings as they were; made after, it
\* adds one finding that references the session created last; and a
\* create_scan_session that fails leaves the current session id as it was.
C30_FindingsReferenceCurrentSession ==
    /\ call.op = "insert_vulnerability_scan" =>
          IF store.scan_sessions = <<>>
          THEN call.raised /\ store.vulnerability_scans = call.before
          ELSE /\ ~call.raised
               /\ Len(store.vulnerability_scans) = Len(call.before) + 1
               /\ SubSeq(store.vulnerability_scans, 1, Len(call.before)) = call.before
               /\ store.vulnerability_scans[Len(store.vulnerability_scans)].scan_session_id
                     = store.scan_sessions[Len(store.scan_sessions)].id
    /\ (call.op = "create_scan_session" /\ "raised" \in DOMAIN call) =>
          current_scan_session_id = call.before
    /\ \A i \in 1..Len(store.vulnerability_scans) :
          \E k \in 1..Len(store.scan_sessions) :
             store.scan_sessions[k].id = store.vulnerability_scans[i].scan_session_id

\* Two sessions were created and a finding was inserted that references
\* the second.
C30_Witness ==
    /\ call.op = "insert_vulnerability_scan"
    /\ ~call.raised
    /\ Len(store.scan_sessions) = 2
    /\ store.vulnerability_scans[Len(store.vulnerability_scans)].scan_session_id = 2

====
